---- MODULE Spec2Model ----
(***************************************************************************)
(* Model of backend/app.py: the review harvesting session                  *)
(* (scrape_reviews), the two extraction strategies merged by               *)
(* combine_extraction_methods, and the pagination controller               *)
(* (handle_pagination).                                                    *)
(*                                                                         *)
(* Text is a sequence of atoms.  An atom is one character or one           *)
(* indivisible run of characters ("read", "more", ...); " ", "\n", "\t"   *)
(* and "\r" are the whitespace atoms.  A number is a pair << n, d >> that  *)
(* stands for n / d, d a power of ten (<< 45, 10 >> is 4.5); an optional   *)
(* value is a sequence of length 0 (null / None / NaN / no element) or 1.  *)
(***************************************************************************)
EXTENDS Integers, Sequences, FiniteSets, TLC

\* ------------------------------------------------------------- constants

\* the largest rating (0 <= rating <= 5)
RatingMax == 5

\* the least number of words of a review body
MinWords == 3

\* body.length < 10 : a clone text this short gives way to the content element
ShortBody == 10

\* page_num <= 50
MaxPageNum == 50

\* the number of entries of the click selector list of handle_pagination
NumSelectors == 14

\* max_reviews: int = Query(500, ge=10, le=1000, ...) : the largest max_reviews
MaxReviewsLimit == 1000

\* max_reviews: int = Query(500, ge=10, le=1000, ...) : the smallest max_reviews
MinReviewsLimit == 10

\* for _ in range(3) : the scroll rounds of handle_dynamic_loading
ScrollRounds == 3

\* the number of entries of load_more_selectors
NumLoadMore == 6

\* --------------------------------------------------------------- bounds

\* the number of distinct HTML documents the site can serve
NumHtml == 4

\* max_reviews is drawn from 1..MaxMaxReviews
MaxMaxReviews == 3

\* document.body.scrollHeight is drawn from 0..MaxHeight
MaxHeight == 2

\* the clicks on one load-more selector are counted up to MaxClicks
MaxClicks == 2

\* cleanText is applied to texts of up to MaxWords words
MaxWords == 6

\* the sites of sessions run at a time serve the documents 1..NumConcHtml
NumConcHtml == 2

\* a URL of the small site with a query serves the documents 1..NumQueryHtml
NumQueryHtml == 2

\* on the pages of the sites the first MaxMatched entries of the selector list
\* can match an element; wait_for_selector times out for the later ones
MaxMatched == 2

\* ------------------------------------------------------------------ text
\* The helpers of the page scripts are functions: like a call of the source,
\* an application takes the values of its arguments.

None == <<>>

Some(v) == <<v>>

\* a text: a sequence of atoms
Text == Seq(STRING)

\* an optional text
OptText == { o \in Seq(Text) : Len(o) <= 1 }

Min(a, b) == IF a < b THEN a ELSE b

\* JS \s : the whitespace atoms
IsSpace(ch) == ch \in {" ", "\n", "\t", "\r"}

\* case folding of the /i flag, for the atoms that have an upper-case form
Lower(ch) == CASE ch = "Read" -> "read"
               [] ch = "More" -> "more"
               [] ch = "Show" -> "show"
               [] ch = "See" -> "see"
               [] ch = "Review" -> "review"
               [] ch = "Write" -> "write"
               [] ch = "Verified" -> "verified"
               [] ch = "Published" -> "published"
               [] ch = "Showing" -> "showing"
               [] ch = "Customer" -> "customer"
               [] ch = "A" -> "a"
               [] ch = "S" -> "s"
               [] OTHER -> ch

\* text.replace(/\s+/g, ' ') : every maximal whitespace run becomes one " "
CollapseWs[s \in Text] ==
    IF s = <<>> THEN <<>>
    ELSE IF IsSpace(Head(s))
         THEN IF Len(s) > 1 /\ IsSpace(s[2])
              THEN CollapseWs[Tail(s)]
              ELSE <<" ">> \o CollapseWs[Tail(s)]
         ELSE <<Head(s)>> \o CollapseWs[Tail(s)]

TrimLeft[s \in Text] == IF s # <<>> /\ IsSpace(Head(s)) THEN TrimLeft[Tail(s)] ELSE s

TrimRight[s \in Text] ==
    IF s # <<>> /\ IsSpace(s[Len(s)]) THEN TrimRight[SubSeq(s, 1, Len(s) - 1)] ELSE s

\* String.prototype.trim
Trim[s \in Text] == TrimRight[TrimLeft[s]]

\* the alternatives of /(?:read more|show more|see more)/i
Markers == { <<"read", " ", "more">>, <<"show", " ", "more">>, <<"see", " ", "more">> }

\* whether needle occurs in s at position i (compared after case folding when fold)
MatchAt(s, i, needle, fold) ==
    /\ i + Len(needle) - 1 <= Len(s)
    /\ \A k \in 1..Len(needle) :
          (IF fold THEN Lower(s[i + k - 1]) ELSE s[i + k - 1]) = needle[k]

\* text.split(/(?:read more|show more|see more)/i)[0] : the text before the first marker
CutAtMarker[s \in Text] ==
    LET hits == { i \in 1..Len(s) : \E m \in Markers : MatchAt(s, i, m, TRUE) }
    IN  IF hits = {} THEN s
        ELSE SubSeq(s, 1, (CHOOSE i \in hits : \A j \in hits : i <= j) - 1)

\* the characters of an atom, as a string; "STAR" is one star glyph
Glyphs(ch) == IF ch = "STAR" THEN "*" ELSE ch

\* the characters of a text, as one string
Chars[s \in Text] == IF s = <<>> THEN "" ELSE Glyphs(s[1]) \o Chars[Tail(s)]

\* whether the string needle occurs in the string hay, at any character
Occurs(hay, needle) ==
    \E i \in 1..(Len(hay) - Len(needle) + 1) : SubSeq(hay, i, i + Len(needle) - 1) = needle

\* String.prototype.includes : a substring test on the characters
Includes[hay \in Text, needle \in Text] == Occurs(Chars[hay], Chars[needle])

\* text.split(' ') : the pieces between single spaces; "" gives [""]
SplitSpace[s \in Text] ==
    LET sp == { i \in 1..Len(s) : s[i] = " " }
    IN  IF sp = {} THEN << s >>
        ELSE LET i == CHOOSE k \in sp : \A j \in sp : k <= j
             IN  << SubSeq(s, 1, i - 1) >> \o SplitSpace[SubSeq(s, i + 1, Len(s))]

\* text.split(/\s+/) : the pieces between whitespace runs; "" gives [""]
SplitWs[s \in Text] ==
    LET sp == { i \in 1..Len(s) : IsSpace(s[i]) }
    IN  IF sp = {} THEN << s >>
        ELSE LET i == CHOOSE k \in sp : \A j \in sp : k <= j
             IN  << SubSeq(s, 1, i - 1) >> \o SplitWs[TrimLeft[SubSeq(s, i + 1, Len(s))]]

\* Python str.split() : the non-empty pieces between whitespace runs
PySplit[s \in Text] == SelectSeq(SplitWs[s], LAMBDA w : w # <<>>)

\* words.join(' ')
JoinSpace[words \in Seq(Text)] ==
    IF words = <<>> THEN <<>>
    ELSE IF Len(words) = 1 THEN words[1]
    ELSE words[1] \o <<" ">> \o JoinSpace[Tail(words)]

\* the for loop of the static cleanText, from word i on, cleaned being cleanedText
CleanLoop[words \in Seq(Text), i \in Nat, cleaned \in Text] ==
    IF i > Len(words) THEN cleaned
    ELSE LET currentPhrase == JoinSpace[SubSeq(words, i, Min(i + 2, Len(words)))]
         IN  IF Includes[cleaned, currentPhrase] /\ Len(SplitSpace[currentPhrase]) > 2
             THEN CleanLoop[words, i + 1, cleaned]
             ELSE CleanLoop[words, i + 1,
                            (IF cleaned # <<>> THEN cleaned \o <<" ">> ELSE cleaned)
                                \o words[i]]

\* cleanText of extract_reviews_traditional; the argument is an optional text
cleanText[opt \in OptText] ==
    IF opt = None \/ opt[1] = <<>> THEN <<>>
    ELSE Trim[CleanLoop[SplitSpace[CutAtMarker[Trim[CollapseWs[opt[1]]]]], 1, <<>>]]

\* cleanText of the assisted pass in combine_extraction_methods
cleanTextLLM[opt \in OptText] ==
    IF opt = None \/ opt[1] = <<>> THEN <<>>
    ELSE CutAtMarker[Trim[CollapseWs[opt[1]]]]

\* ------------------------------------------------------------- numbers

\* a number << n, d >> is n / d, d a power of ten and n not a multiple of ten
\* unless d = 1; << 1, 0 >> and << -1, 0 >> are Infinity and -Infinity
Number == Int \X Nat

\* an optional number
OptNumber == { o \in Seq(Number) : Len(o) <= 1 }

\* the number of an integer
Whole(n) == << n, 1 >>

DigitChars == <<"0", "1", "2", "3", "4", "5", "6", "7", "8", "9">>

IsDigit(ch) == \E i \in 1..Len(DigitChars) : DigitChars[i] = ch

DigitVal(ch) == (CHOOSE i \in 1..Len(DigitChars) : DigitChars[i] = ch) - 1

\* the number of leading digit characters of s
DigitPrefix[s \in Text] == IF s # <<>> /\ IsDigit(Head(s)) THEN 1 + DigitPrefix[Tail(s)] ELSE 0

\* the value of a sequence of digit characters
IntVal[ds \in Text] ==
    IF ds = <<>> THEN 0 ELSE 10 * IntVal[SubSeq(ds, 1, Len(ds) - 1)] + DigitVal(ds[Len(ds)])

Pow10[k \in Nat] == IF k = 0 THEN 1 ELSE 10 * Pow10[k - 1]

\* n / d in lowest decimal terms
Norm[n \in Int, d \in Nat] ==
    IF d > 1 /\ n % 10 = 0 THEN Norm[n \div 10, d \div 10] ELSE << n, d >>

\* the mantissa of a decimal literal at the head of s, n being the number of
\* its leading digits: n digits, m fraction digits and len characters in all
\* (len = 0: s starts with no mantissa)
MantissaOf[s \in Text, n \in Nat, m \in Nat] ==
    [ n |-> n, m |-> m,
      len |-> IF n > 0 THEN (IF Len(s) > n /\ s[n + 1] = "." THEN n + 1 + m ELSE n)
              ELSE IF m > 0 THEN 1 + m ELSE 0 ]

Mantissa[s \in Text, n \in Nat] ==
    MantissaOf[s, n, IF Len(s) > n /\ s[n + 1] = "."
                     THEN DigitPrefix[SubSeq(s, n + 2, Len(s))] ELSE 0]

\* the exponent part at the head of rest whose digits start at from and are
\* k in number: its length (0 when there is none) and its value
ExponentOf[rest \in Text, from \in Nat, k \in Nat] ==
    IF k = 0 THEN [ len |-> 0, e |-> 0 ]
    ELSE [ len |-> from - 1 + k,
           e   |-> IF from = 3 /\ rest[2] = "-"
                   THEN 0 - IntVal[SubSeq(rest, from, from + k - 1)]
                   ELSE IntVal[SubSeq(rest, from, from + k - 1)] ]

ExponentFrom[rest \in Text, from \in Nat] ==
    ExponentOf[rest, from, DigitPrefix[SubSeq(rest, from, Len(rest))]]

Exponent[rest \in Text] ==
    IF rest = <<>> \/ rest[1] \notin {"e", "E"} THEN [ len |-> 0, e |-> 0 ]
    ELSE ExponentFrom[rest, IF Len(rest) >= 2 /\ rest[2] \in {"+", "-"} THEN 3 ELSE 2]

\* num / 10^m times 10^e
Scaled[num \in Int, m \in Nat, e \in Int] ==
    IF e < 0 THEN Norm[num, Pow10[m - e]] ELSE Norm[num * Pow10[e], Pow10[m]]

\* the literal of mantissa mt and exponent ex at the head of s
Literal[s \in Text, mt \in [n : Nat, m : Nat, len : Nat], ex \in [len : Nat, e : Int]] ==
    [ len |-> mt.len + ex.len,
      val |-> Scaled[IntVal[SubSeq(s, 1, mt.n)] * Pow10[mt.m]
                        + IntVal[SubSeq(s, mt.n + 2, mt.n + 1 + mt.m)],
                     mt.m, ex.e] ]

LiteralOf[s \in Text, mt \in [n : Nat, m : Nat, len : Nat]] ==
    IF mt.len = 0 THEN [ len |-> 0, val |-> << 0, 1 >> ]
    ELSE Literal[s, mt, Exponent[SubSeq(s, mt.len + 1, Len(s))]]

\* the longest prefix of s that is an unsigned StrDecimalLiteral: Infinity,
\* digits with an optional fraction, or a fraction, then an optional exponent;
\* len is its length (0 when there is none) and val its value
UnsignedPrefix[s \in Text] ==
    IF s # <<>> /\ s[1] = "Infinity" THEN [ len |-> 1, val |-> << 1, 0 >> ]
    ELSE LiteralOf[s, Mantissa[s, DigitPrefix[s]]]

\* the same with an optional sign in front
SignedPrefix[s \in Text] ==
    IF s # <<>> /\ s[1] \in {"+", "-"}
    THEN LET u == UnsignedPrefix[Tail(s)]
         IN  IF u.len = 0 THEN u
             ELSE [ len |-> u.len + 1,
                    val |-> IF s[1] = "-" THEN << 0 - u.val[1], u.val[2] >> ELSE u.val ]
    ELSE UnsignedPrefix[s]

\* JS parseFloat: leading whitespace is skipped, then the longest prefix that
\* is a decimal literal is read; None is NaN
parseFloat[s \in Text] ==
    LET p == SignedPrefix[TrimLeft[s]]
    IN  IF p.len = 0 THEN None ELSE Some(p.val)

\* 0x, 0o and 0b literals of the string to number conversion
NonDecimal[t \in Text] ==
    /\ Len(t) >= 3
    /\ t[1] = "0"
    /\ \/ /\ t[2] \in {"x", "X"}
          /\ \A i \in 3..Len(t) :
                IsDigit(t[i]) \/ t[i] \in {"a", "b", "c", "d", "e", "f", "A", "B", "C", "D", "E", "F"}
       \/ /\ t[2] \in {"o", "O"}
          /\ \A i \in 3..Len(t) : t[i] \in {"0", "1", "2", "3", "4", "5", "6", "7"}
       \/ /\ t[2] \in {"b", "B"}
          /\ \A i \in 3..Len(t) : t[i] \in {"0", "1"}

\* JS !isNaN(value) for a string: the trimmed string is empty, a decimal
\* literal, or a 0x, 0o or 0b literal
IsNumeric[s \in Text] ==
    \/ Trim[s] = <<>>
    \/ SignedPrefix[Trim[s]].len > 0 /\ SignedPrefix[Trim[s]].len = Len(Trim[s])
    \/ NonDecimal[Trim[s]]

\* String.prototype.replace(',', '.') : the first comma only
ReplaceComma[s \in Text] ==
    LET cs == { i \in 1..Len(s) : s[i] = "," }
    IN  IF cs = {} THEN s
        ELSE [s EXCEPT ![CHOOSE i \in cs : \A j \in cs : i <= j] = "."]

\* rating >= 0 && rating <= 5 (JS), 0 <= rating <= 5 (Python); false for NaN
InRange[r \in OptNumber] ==
    r # None /\ r[1][1] >= 0 /\ r[1][1] <= RatingMax * r[1][2]

\* the number of characters of an atom; "STAR" is one star glyph
AtomLen(ch) == IF ch = "STAR" THEN 1 ELSE Len(ch)

\* String.prototype.length
StrLen[s \in Text] == IF s = <<>> THEN 0 ELSE AtomLen(Head(s)) + StrLen[Tail(s)]

\* ------------------------------------------------- static strategy (JS)

\* the data attribute stage of the static extractRating, from attribute i on
RatingFromAttrs[attrs \in Seq(Text), i \in Nat] ==
    IF i > Len(attrs) THEN None
    ELSE IF attrs[i] # <<>> /\ IsNumeric[attrs[i]] /\ InRange[parseFloat[attrs[i]]]
         THEN parseFloat[attrs[i]]
         ELSE RatingFromAttrs[attrs, i + 1]

\* the value a matched group stands for: a glyph count or a parsed number
MatchValue[m \in Text] ==
    IF \E i \in 1..Len(m) : m[i] = "STAR" THEN Some(Whole(StrLen[m]))
    ELSE parseFloat[ReplaceComma[m]]

\* the text pattern stage of the static extractRating: matches[i] is match[1]
\* of the i-th pattern of the list that matches the element's text
RatingFromText[matches \in Seq(Text), i \in Nat] ==
    IF i > Len(matches) THEN None
    ELSE IF InRange[MatchValue[matches[i]]] THEN MatchValue[matches[i]]
         ELSE RatingFromText[matches, i + 1]

\* extractRating of extract_reviews_traditional
extractRating(el) ==
    IF el.stars > 0 /\ InRange[Some(Whole(el.stars))] THEN Some(Whole(el.stars))
    ELSE IF RatingFromAttrs[el.dataAttrs, 1] # None THEN RatingFromAttrs[el.dataAttrs, 1]
    ELSE RatingFromText[el.textMatches, 1]

\* t, case folded
Fold[t \in Text] == [i \in 1..Len(t) |-> Lower(t[i])]

StartsWith[t \in Text, prefix \in Text] ==
    Len(t) >= Len(prefix) /\ SubSeq(Fold[t], 1, Len(prefix)) = prefix

\* /^\d+\s+reviews?$/i
IsCountOfReviews[t \in Text] ==
    LET n == DigitPrefix[t]
        rest == SubSeq(t, n + 1, Len(t))
    IN  /\ n > 0
        /\ rest # <<>>
        /\ IsSpace(rest[1])
        /\ Fold[TrimLeft[rest]] \in { <<"review">>, <<"review", "s">> }

\* invalidPatterns.some(pattern => pattern.test(t))
MatchesInvalid[t \in Text] ==
    \/ Fold[t] \in { <<"review">>, <<"review", "s">> }
    \/ Fold[t] = <<"write", " ", "a", " ", "review">>
    \/ Fold[t] \in { <<"see", " ", "review">>, <<"see", " ", "review", "s">> }
    \/ IsCountOfReviews[t]
    \/ Len(t) >= 2 /\ Lower(t[1]) = "verified" /\ IsSpace(t[2])
    \/ StartsWith[t, <<"published">>]
    \/ StartsWith[t, <<"see", " ", "more">>]
    \/ StartsWith[t, <<"read", " ", "more">>]
    \/ StartsWith[t, <<"showing">>]
    \/ Fold[t] \in { <<"customer", " ", "review">>, <<"customer", " ", "review", "s">> }

\* isValidReview of extract_reviews_traditional
isValidReview[text \in Text] ==
    IF text = <<>> THEN FALSE
    ELSE IF MatchesInvalid[Trim[text]] THEN FALSE
    ELSE Len(SplitWs[Trim[text]]) >= 3

\* a review element as the page script reads it: the texts of the sub-elements
\* the selector lists find (None when none matches), the text of the stripped
\* clone, the number of filled-star elements, the data attribute values and
\* the pattern matches
ReviewElement ==
    [ title : OptText, body : OptText, cloneText : Text, mainContent : OptText,
      reviewer : OptText, stars : Nat, dataAttrs : Seq(Text), textMatches : Seq(Text) ]

\* a review record
Review == [ title : Text, body : Text, rating : OptNumber, reviewer : Text ]

\* the body of one review element: the body selector's text, else the text of
\* the stripped clone, else (when that is short) the generic content element
ElementBody[el \in ReviewElement] ==
    IF cleanText[el.body] # <<>> THEN cleanText[el.body]
    ELSE IF StrLen[cleanText[Some(el.cloneText)]] < ShortBody /\ el.mainContent # None
         THEN cleanText[el.mainContent]
         ELSE cleanText[Some(el.cloneText)]

\* the record built from one review element (before the validity test)
ElementRecord[el \in ReviewElement] ==
    [ title    |-> IF cleanText[el.title] # <<>> THEN cleanText[el.title] ELSE <<"Review">>,
      body     |-> ElementBody[el],
      rating   |-> extractRating(el),
      reviewer |-> IF cleanText[el.reviewer] # <<>> THEN cleanText[el.reviewer]
                   ELSE <<"Anonymous">> ]

\* the bodies of a sequence of records
Bodies(revs) == { revs[i].body : i \in 1..Len(revs) }

\* reviewElements.forEach of the page script: acc is reviews, whose bodies are seenContent
StaticScript[els \in Seq(ReviewElement), acc \in Seq(Review)] ==
    IF els = <<>> THEN acc
    ELSE LET r == ElementRecord[Head(els)]
         IN  IF isValidReview[r.body] /\ r.body \notin Bodies(acc)
             THEN StaticScript[Tail(els), Append(acc, r)]
             ELSE StaticScript[Tail(els), acc]

\* the rating clean-up of extract_reviews_traditional: float(), then the range test
CleanRating(r) == IF r = None THEN None ELSE IF InRange[r] THEN r ELSE None

\* the Python clean-up of extract_reviews_traditional over the script's records
CleanUp[reviews \in Seq(Review)] ==
    LET kept == SelectSeq(reviews, LAMBDA r : r.body # <<>> /\ Len(PySplit[r.body]) >= MinWords)
    IN  [i \in 1..Len(kept) |-> [kept[i] EXCEPT !.rating = CleanRating(kept[i].rating)]]

\* extract_reviews_traditional on the review elements of a page
extract_reviews_traditional(els) == CleanUp[StaticScript[els, <<>>]]

\* ----------------------------------------------- assisted strategy (JS)

\* a container as the assisted script reads it: the texts of the elements the
\* content selectors find, and of those the rating selectors find
ReviewContainer == [ contents : Seq(Text), ratingTexts : Seq(Text) ]

\* ratingText.match(/([1-5]([.,]\d)?)/)[1] : None when there is no match
RatingMatch[s \in Text] ==
    LET hits == { i \in 1..Len(s) : IsDigit(s[i]) /\ DigitVal(s[i]) >= 1 /\ DigitVal(s[i]) <= 5 }
    IN  IF hits = {} THEN None
        ELSE LET i == CHOOSE k \in hits : \A j \in hits : k <= j
             IN  IF Len(s) >= i + 2 /\ s[i + 1] \in {".", ","} /\ IsDigit(s[i + 2])
                 THEN Some(SubSeq(s, i, i + 2))
                 ELSE Some(SubSeq(s, i, i))

\* extractRating of the assisted pass: texts[i] is the text of the element the
\* i-th rating selector that matches inside the container finds
extractRatingLLM[texts \in Seq(Text), i \in Nat] ==
    IF i > Len(texts) THEN None
    ELSE IF RatingMatch[texts[i]] # None THEN parseFloat[RatingMatch[texts[i]][1]]
         ELSE extractRatingLLM[texts, i + 1]

\* the content of a container: the first non-empty cleaned text of the elements
\* the content selectors find, from the i-th on
ContainerContent[contents \in Seq(Text), i \in Nat] ==
    IF i > Len(contents) THEN <<>>
    ELSE IF cleanTextLLM[Some(contents[i])] # <<>> THEN cleanTextLLM[Some(contents[i])]
         ELSE ContainerContent[contents, i + 1]

\* the page script of the assisted pass over the containers the selectors find
AssistedScript[containers \in Seq(ReviewContainer)] ==
    IF containers = <<>> THEN <<>>
    ELSE LET content == ContainerContent[Head(containers).contents, 1]
         IN  IF content # <<>> /\ Len(SplitWs[content]) >= MinWords
             THEN << [ title    |-> <<"Review">>,
                       body     |-> content,
                       rating   |-> extractRatingLLM[Head(containers).ratingTexts, 1],
                       reviewer |-> <<"Anonymous">> ] >>
                  \o AssistedScript[Tail(containers)]
             ELSE AssistedScript[Tail(containers)]

\* ------------------------------------------------------------- merging

\* for review in revs: if review['body'] not in seen_content: add, append
MergeUnseen[acc \in Seq(Review), revs \in Seq(Review)] ==
    IF revs = <<>> THEN acc
    ELSE IF Head(revs).body \in Bodies(acc) THEN MergeUnseen[acc, Tail(revs)]
    ELSE MergeUnseen[Append(acc, Head(revs)), Tail(revs)]

\* a second merge that puts the assisted records first
MergeAssistedFirst(all, llm_reviews) == MergeUnseen[MergeUnseen[<<>>, llm_reviews], all]

\* for review in llm_reviews: the second merge, into the list that holds the
\* static records
MergeAssisted(all, llm_reviews) == MergeUnseen[all, llm_reviews]

\* combine_extraction_methods on a page whose review elements are els and whose
\* assisted containers are containers; llmOk is false when the assisted pass raises
combine_extraction_methods(els, containers, llmOk) ==
    LET traditional == MergeUnseen[<<>>, extract_reviews_traditional(els)]
    IN  IF llmOk THEN MergeAssisted(traditional, AssistedScript[containers])
        ELSE traditional

\* a merge that trusts the per-page deduplication and filters nothing
UniqueReviewsUnfiltered(all, new) == new

\* unique_reviews = [r for r in new_reviews if r['body'] not in existing_contents]
UniqueReviews(all, new) == SelectSeq(new, LAMBDA r : r.body \notin Bodies(all))

\* a merge in which a record of the batch takes the place of the collected
\* record with its body
MergedReplacing(all, new_reviews) ==
    [ i \in 1..Len(all) |->
        IF \E j \in 1..Len(new_reviews) : new_reviews[j].body = all[i].body
        THEN new_reviews[CHOOSE j \in 1..Len(new_reviews) : new_reviews[j].body = all[i].body]
        ELSE all[i] ] \o SelectSeq(new_reviews, LAMBDA r : r.body \notin Bodies(all))

\* all_reviews after existing_contents, unique_reviews and
\* all_reviews.extend(unique_reviews) for the batch new_reviews
Merged(all, new_reviews) == all \o UniqueReviews(all, new_reviews)

\* ---------------------------------------------------------------- URLs
\* A URL is a sequence of atoms: a scheme ("http:", "file:"), "//", a host,
\* a path, then "?", "&", "page=", digit characters and other parameters.

\* str(n) for n >= 0
RECURSIVE ToDigits(_)
ToDigits(n) == IF n < 10 THEN << DigitChars[n + 1] >>
               ELSE ToDigits(n \div 10) \o << DigitChars[(n % 10) + 1] >>

\* re.sub(r'page=\d+', 'page=' + str(n), url)
RECURSIVE SubPage(_, _)
SubPage(url, n) ==
    IF url = <<>> THEN <<>>
    ELSE IF Head(url) = "page=" /\ DigitPrefix[Tail(url)] > 0
         THEN <<"page=">> \o ToDigits(n)
                  \o SubPage(SubSeq(url, 2 + DigitPrefix[Tail(url)], Len(url)), n)
         ELSE << Head(url) >> \o SubPage(Tail(url), n)

\* 'x' in url, for a one-atom x
HasAtom(url, x) == \E i \in 1..Len(url) : url[i] = x

\* next_url of the URL modification of handle_pagination
NextUrl(current_url, current_page) ==
    IF HasAtom(current_url, "page=")
    THEN SubPage(current_url, current_page + 1)
    ELSE current_url \o << (IF HasAtom(current_url, "?") THEN "&" ELSE "?"), "page=" >>
             \o ToDigits(current_page + 1)

\* urlparse(url).scheme
UrlScheme(url) == IF url # <<>> /\ url[1] \in {"http:", "file:"} THEN url[1] ELSE ""

\* urlparse(url).netloc : what follows "//", up to the path, the query or the fragment
UrlNetloc(url) ==
    IF Len(url) >= 3 /\ url[2] = "//" /\ url[3] \notin {"/p", "?", "#"} THEN url[3] ELSE ""

\* all([parsed_url.scheme, parsed_url.netloc])
ValidUrl(url) == UrlScheme(url) # "" /\ UrlNetloc(url) # ""

\* ------------------------------------------------------------ the site
\* What the browser shows: the review elements the static selectors find,
\* and the containers the assisted selectors find, of each document.

\* a review element: the texts of the sub-elements the selector lists find
\* (None when none matches), the text of the stripped clone, the number of
\* filled-star elements, the data attribute values and the pattern matches
Element(title, body, clone, main, reviewer, stars, attrs, matches) ==
    [ title |-> title, body |-> body, cloneText |-> clone, mainContent |-> main,
      reviewer |-> reviewer, stars |-> stars, dataAttrs |-> attrs, textMatches |-> matches ]

Container(contents, ratingTexts) == [ contents |-> contents, ratingTexts |-> ratingTexts ]

Doms ==
    << \* two reviews; the assisted pass finds the first again and a truncated third
       [ els |-> << Element(Some(<<"t">>), Some(<<" ", "a", " ", "\n", "b", " ", "c">>),
                            <<"t", " ", "a", " ", "b", " ", "c">>, None, None,
                            4, <<>>, <<>>),
                    Element(None, Some(<<"d", " ", "e", " ", "f", " ", "Read", " ", "more", " ", "x">>),
                            <<"d", " ", "e", " ", "f">>, None, Some(<<"r">>),
                            0, << <<"7">>, <<"4", ".", "5">> >>, <<>>) >>,
         containers |-> << Container(<< <<"a", " ", "b", " ", "c">> >>, << <<"3">> >>),
                           Container(<< <<" ">>, <<"g", " ", "h", " ", "read", " ", "more">> >>,
                                     << <<"x">>, <<"4", ",", "5">> >>) >> ],
       \* the same bodies under other titles and ratings
       [ els |-> << Element(Some(<<"u">>), Some(<<"a", " ", "b", " ", "c">>),
                            <<"u", " ", "a", " ", "b", " ", "c">>, None, Some(<<"s">>),
                            5, <<>>, <<>>) >>,
         containers |-> << Container(<< <<"d", " ", "e", " ", "f">> >>, << <<"2">> >>) >> ],
       \* a body from the fallbacks, boilerplate, and an assisted rating out of range
       [ els |-> << Element(None, None, <<"x", " ", "y">>,
                            Some(<<"x", " ", "y", " ", "z", " ", "w", " ", "x", " ", "y", " ", "z">>),
                            None, 7, << <<"n">> >>,
                            << <<"5", ",", "9">>, <<"STAR", "STAR", "STAR">> >>),
                    Element(None, Some(<<"write", " ", "a", " ", "review">>),
                            <<>>, None, None, 0, <<>>, <<>>),
                    Element(None, Some(<<"k", " ", "l">>), <<>>, None, None, 0, <<>>, <<>>) >>,
         containers |-> << Container(<< <<"p", " ", "q", " ", "r">> >>, << <<"5", ".", "9">> >>),
                           Container(<< <<"m">> >>, <<>>) >> ],
       \* no review at all
       [ els |-> <<>>, containers |-> <<>> ] >>

\* the documents of the small site, by number; documents beyond the list
\* repeat its contents
Htmls == 1..NumHtml

\* page n of the long site: one review that no other page has
LongDom(n) ==
    [ els |-> << Element(None, Some(<<"page", " ">> \o ToDigits(n) \o <<" ", "x">>),
                         <<>>, None, None, 0, <<>>, <<>>) >>,
      containers |-> <<>> ]

\* the documents of the long site follow those of the small one
LongHtml(n) == NumHtml + n

\* a document of page furniture: a review element and two assisted containers
\* whose texts are the "write a review" link and the "verified" badge
FurnitureDom ==
    [ els |-> << Element(None, Some(<<"write", " ", "a", " ", "review">>),
                         <<>>, None, None, 0, <<>>, <<>>) >>,
      containers |-> << Container(<< <<"write", " ", "a", " ", "review">> >>, <<>>),
                        Container(<< <<"verified", " ", "buyer", " ", "x">> >>, <<>>) >> ]

\* its number, after the documents of the two sites
FurnitureHtml == LongHtml(MaxPageNum + 2) + 1

AllHtmls == 1..FurnitureHtml

Dom(h) ==
    IF h \in Htmls THEN Doms[((h - 1) % Len(Doms)) + 1]
    ELSE IF h = FurnitureHtml THEN FurnitureDom
    ELSE LongDom(h - NumHtml)

\* new_reviews of every document: [h][llmOk] is what combine_extraction_methods
\* returns on document h, llmOk telling whether the assisted pass ran or raised
PageReviews ==
    [ h \in AllHtmls |->
        [ llmOk \in BOOLEAN |->
            combine_extraction_methods(Dom(h).els, Dom(h).containers, llmOk) ] ]

\* the URLs of the site
SiteUrls ==
    { <<"http:", "//", "h", "/p">>,
      <<"http:", "//", "h", "/p", "?", "page=", "1">>,
      <<"http:", "//", "h", "/p", "?", "page=", "2">>,
      <<"http:", "//", "h", "/p", "?", "q=x">>,
      <<"http:", "//", "h", "/p", "?", "sub", "page=", "3", "&", "page=">>,
      <<"file:", "//", "/p">> }

\* the URL of the long site
LongUrl == <<"http:", "//", "long", "/p">>

\* the URL of the small site without a query
MainUrl == <<"http:", "//", "h", "/p">>

\* the documents the site of url u can show as its page n: the n-th page of
\* the long site, any document of the small site, the first documents of the
\* small site when the session was started on a URL with a query
Served(u, n) ==
    IF u = LongUrl THEN { LongHtml(n) }
    ELSE IF u = MainUrl THEN Htmls
    ELSE 1..Min(NumQueryHtml, NumHtml)

\* --------------------------------------------------- the session state

VARIABLES
    url,              \* scrape_reviews: the url argument
    max_reviews,      \* scrape_reviews: the max_reviews argument
    pc,               \* the await scrape_reviews is at
    driver,           \* async_playwright(): "off", "on", "stopped"
    browserOpen,      \* the browser was launched and browser.close() has not run
    contextOpen,      \* the context was created and context.close() has not run
    pageUrl,          \* page.url
    pageHtml,         \* page.content(), by document number (0: no document)
    all_reviews,      \* scrape_reviews: all_reviews
    successful_pages, \* scrape_reviews: successful_pages
    page_num,         \* scrape_reviews: page_num
    combined,         \* combine_extraction_methods: all_reviews, the batch it builds
    has_selectors,    \* combine_extraction_methods: the selector lists have entries
    selIdx,           \* handle_pagination: the index of the selector being tried
                      \* (0 outside the call)
    before_url,       \* handle_pagination: before_url (<<>> when not assigned)
    before_html,      \* handle_pagination: before_html (0 when not assigned)
    outcome,          \* "running", "returned" or "raised"
    result,           \* the value returned (None until the return statement)
    raisedAt,         \* history: the steps that raised an exception, in order
    extractions,      \* history: the number of extractions that returned new_reviews
    seen,             \* history: the bodies of every new_reviews so far
    lastNew,          \* history: the bodies of the last new_reviews not seen before it
    pagCalls,         \* history: the number of handle_pagination calls
    lastPag,          \* history: how the handle_pagination call that has just returned
                      \* ended: "click", "rewrite" (True), "invalid", "failed" (False)
    response,         \* get_reviews: the HTTP response (None until it answers)
    pagChanged        \* history: the number of the last handle_pagination call in
                      \* which an exception ended a selector with the page
                      \* differing from before_url and before_html (0: none)

\* the arguments of the call and the answer to the request
callVars == << url, max_reviews, response >>

sessionVars == << all_reviews, successful_pages, page_num >>

pageVars == << pageUrl, pageHtml >>

browserVars == << driver, browserOpen, contextOpen >>

\* the local variables of combine_extraction_methods
combineVars == << combined, has_selectors >>

\* the local variables of handle_pagination
beforeVars == << before_url, before_html >>

batchVars == << extractions, seen, lastNew >>

histVars == << raisedAt, batchVars, pagCalls, lastPag >>

\* the state of scrape_reviews
sessionState == << url, max_reviews, pc, driver, browserOpen, contextOpen, pageUrl, pageHtml,
                   all_reviews, successful_pages, page_num, combined, has_selectors, selIdx,
                   before_url, before_html, outcome, result,
                   raisedAt, extractions, seen, lastNew, pagCalls, lastPag, response,
                   pagChanged >>

\* ------------------------------- the state of handle_dynamic_loading

VARIABLES
    ld_pc,            \* the await handle_dynamic_loading is at ("idle": not called)
    scroll_round,     \* the scroll rounds completed (the position of for _ in range(3))
    current_height,   \* handle_dynamic_loading: current_height
    selector_i,       \* the index of the load-more selector being tried
    ld_clicks,        \* history: the clicks on this selector, counted up to MaxClicks
    ld_raised,        \* history: the awaits that raised an exception
    ld_outcome        \* "running", "returned" or "raised"

loaderState == << ld_pc, scroll_round, current_height, selector_i, ld_clicks,
                  ld_raised, ld_outcome >>

\* ------------------------------------------- applications of cleanText

VARIABLES
    ct_text,          \* the argument, then the value cleanText returned
    ct_first,         \* history: what the first application returned (None before it)
    ct_runs           \* history: the number of applications

cleanState == << ct_text, ct_first, ct_runs >>

\* --------------------------------- the state of combine_extraction_methods

VARIABLES
    ex_pc,            \* the await combine_extraction_methods is at ("idle": not called)
    ex_html,          \* the document the page shows
    ex_static,        \* history: the document the static script ran on (0 before it)
    ex_all,           \* combine_extraction_methods: all_reviews
    ex_selectors,     \* combine_extraction_methods: selectors
    ex_failed,        \* history: what failed during the call
    ex_post,          \* history: what the request to the service did (None before it)
    ex_outcome,       \* "running", "returned" or "raised"
    ex_result         \* the value returned (None until the return statement)

extractState == << ex_pc, ex_html, ex_static, ex_all, ex_selectors, ex_failed, ex_post,
                   ex_outcome, ex_result >>

\* ------------------------------------------ the state of two sessions

VARIABLES
    c_url,            \* scrape_reviews: the url argument of each call
    c_max,            \* scrape_reviews: the max_reviews argument of each call
    c_at,             \* the await each call is at, the index of its loop, how it ended
    c_local,          \* the store: the value of every variable, by owner and name
    c_context,        \* scrape_reviews: context of each call (0: not created)
    c_created,        \* the number of browser contexts created
    c_page,           \* the URL and the document the page of each context shows
    c_alone           \* history: the await, the variables and the page each call
                      \* has when run alone against what its awaits handed back

concState == << c_url, c_max, c_at, c_local, c_context, c_created, c_page, c_alone >>

\* what a step of scrape_reviews leaves alone
otherState == << loaderState, cleanState, extractState, concState >>

\* what a step of handle_dynamic_loading leaves alone
notLoader == << sessionState, cleanState, extractState, concState >>

\* what an application of cleanText leaves alone
notClean == << sessionState, loaderState, extractState, concState >>

\* what a step of combine_extraction_methods leaves alone
notExtract == << sessionState, loaderState, cleanState, concState >>

\* what a step of one of two sessions leaves alone
notConc == << sessionState, loaderState, cleanState, extractState >>

vars == << sessionState, otherState >>

\* handle_dynamic_loading is not running
LoaderIdle ==
    /\ ld_pc = "idle"
    /\ scroll_round = 0
    /\ current_height = 0
    /\ selector_i = 0
    /\ ld_clicks = 0
    /\ ld_raised = {}
    /\ ld_outcome = "running"

\* cleanText is not applied
CleanIdle ==
    /\ ct_text = <<>>
    /\ ct_first = None
    /\ ct_runs = 0

\* combine_extraction_methods is not running
ExtractIdle ==
    /\ ex_pc = "idle"
    /\ ex_html = 0
    /\ ex_static = 0
    /\ ex_all = <<>>
    /\ ex_selectors = <<>>
    /\ ex_failed = {}
    /\ ex_post = None
    /\ ex_outcome = "running"
    /\ ex_result = <<>>

\* no two sessions are running
ConcIdle ==
    /\ c_url = <<>>
    /\ c_max = <<>>
    /\ c_at = <<>>
    /\ c_local = <<>>
    /\ c_context = <<>>
    /\ c_created = 0
    /\ c_page = <<>>
    /\ c_alone = <<>>

\* scrape_reviews is not running
SessionIdle ==
    /\ url = <<>>
    /\ max_reviews = 0
    /\ pc = "idle"
    /\ driver = "off"
    /\ browserOpen = FALSE
    /\ contextOpen = FALSE
    /\ pageUrl = <<"about:blank">>
    /\ pageHtml = 0
    /\ all_reviews = <<>>
    /\ successful_pages = 0
    /\ page_num = 1
    /\ combined = <<>>
    /\ has_selectors = FALSE
    /\ selIdx = 0
    /\ before_url = <<>>
    /\ before_html = 0
    /\ outcome = "running"
    /\ result = None
    /\ raisedAt = <<>>
    /\ extractions = 0
    /\ seen = {}
    /\ lastNew = {}
    /\ pagCalls = 0
    /\ lastPag = "none"
    /\ response = None
    /\ pagChanged = 0

Init ==
    /\ \/ url = MainUrl /\ max_reviews \in 1..MaxMaxReviews
       \/ url \in SiteUrls /\ max_reviews = MaxMaxReviews
       \/ url = LongUrl /\ max_reviews = MaxReviewsLimit
    /\ pc = "start"
    /\ driver = "off"
    /\ browserOpen = FALSE
    /\ contextOpen = FALSE
    /\ pageUrl = <<"about:blank">>
    /\ pageHtml = 0
    /\ all_reviews = <<>>
    /\ successful_pages = 0
    /\ page_num = 1
    /\ combined = <<>>
    /\ has_selectors = FALSE
    /\ selIdx = 0
    /\ before_url = <<>>
    /\ before_html = 0
    /\ outcome = "running"
    /\ result = None
    /\ raisedAt = <<>>
    /\ extractions = 0
    /\ seen = {}
    /\ lastNew = {}
    /\ pagCalls = 0
    /\ lastPag = "none"
    /\ response = None
    /\ pagChanged = 0
    /\ LoaderIdle
    /\ CleanIdle
    /\ ExtractIdle
    /\ ConcIdle

\* a try statement opened after the initial navigation
TryCoversLoopOnly(step) == step \in {"extract"}

\* a try statement opened before the browser is launched
TryCoversLaunch(step) == TRUE

\* the steps the try statement of scrape_reviews covers
TryCovers(step) == step \in {"goto", "goto_wait", "extract"}

\* the result of the except clause
ErrorResult(u) ==
    [ reviews |-> <<>>, reviews_count |-> 0, pages_with_unique_reviews |-> 0,
      url |-> u, scrape_date |-> "strftime" ]

\* final_result
FinalResult(u, all, successful) ==
    [ reviews |-> all, reviews_count |-> Len(all), pages_with_unique_reviews |-> successful,
      url |-> u, scrape_date |-> "strftime" ]

\* a loop that lets one page more through
LoopConditionOneMore(all, max, pn) == Len(all) < max /\ pn <= MaxPageNum + 1

\* while len(all_reviews) < max_reviews and page_num <= 50
LoopCondition(all, max, pn) == Len(all) < max /\ pn <= MaxPageNum

\* a loop that never takes the break on a page without new records
FoundNewAlways(initial_review_count, all) == TRUE

\* if len(all_reviews) > initial_review_count (else: break)
FoundNew(initial_review_count, all) == Len(all) > initial_review_count

\* a counter that counts every page with candidates
CountPageAlways(successful, initial_review_count, all) == successful + 1

\* successful_pages after the merge of one page
CountPage(successful, initial_review_count, all) ==
    IF Len(all) > initial_review_count THEN successful + 1 ELSE successful

\* the local variables of the loop and of the functions it calls
loopVars == << sessionVars, combineVars, selIdx, beforeVars >>

\* the documents the page may show when an await returns: a page of the small
\* site may replace its document while the session awaits, a page of the long
\* site keeps the one it has
Changes == IF url = LongUrl THEN { pageHtml } ELSE Served(url, page_num)

\* the static records of every document, merged as combine_extraction_methods
\* merges them
StaticReviews ==
    [ h \in AllHtmls |-> MergeUnseen[<<>>, extract_reviews_traditional(Dom(h).els)] ]

\* the records of the assisted script on every document
AssistedReviews == [ h \in AllHtmls |-> AssistedScript[Dom(h).containers] ]

\* an exception raised by step: the except clause, up to the finally clause,
\* when the try statement covers the step; else the exception leaves the body
\* of the async with statement
Raise(step) ==
    /\ raisedAt' = Append(raisedAt, step)
    /\ IF TryCovers(step)
       THEN /\ result' = Some(ErrorResult(url))
            /\ pc' = "close_context"
       ELSE /\ pc' = "unwind"
            /\ UNCHANGED result

\* an exception raised in the finally clause: the value to return is dropped
\* and the exception leaves the body of the async with statement
RaiseFinally(step) ==
    /\ raisedAt' = Append(raisedAt, step)
    /\ result' = None
    /\ pc' = "unwind"

\* the loop left by break or by its condition: final_result, then finally
Finish(all, successful) ==
    /\ result' = Some(FinalResult(url, all, successful))
    /\ pc' = "close_context"

\* async with async_playwright() as p : __aenter__ returns
Start ==
    /\ pc = "start"
    /\ driver' = "on"
    /\ pc' = "launch"
    /\ UNCHANGED << otherState, callVars, pagChanged, browserOpen, contextOpen, pageVars,
                    loopVars, outcome, result, histVars >>

\* __aenter__ raises: the driver was not started and scrape_reviews raises
StartFails ==
    /\ pc = "start"
    /\ raisedAt' = Append(raisedAt, "start")
    /\ outcome' = "raised"
    /\ pc' = "done"
    /\ UNCHANGED << otherState, callVars, pagChanged, browserVars, pageVars, loopVars,
                    result, batchVars, pagCalls, lastPag >>

\* browser = await p.chromium.launch(headless=True)
Launch ==
    /\ pc = "launch"
    /\ browserOpen' = TRUE
    /\ pc' = "new_context"
    /\ UNCHANGED << otherState, callVars, pagChanged, driver, contextOpen, pageVars,
                    loopVars, outcome, result, histVars >>

LaunchFails ==
    /\ pc = "launch"
    /\ Raise("launch")
    /\ UNCHANGED << otherState, callVars, pagChanged, browserVars, pageVars, loopVars,
                    outcome, batchVars, pagCalls, lastPag >>

\* context = await browser.new_context(...)
NewContext ==
    /\ pc = "new_context"
    /\ contextOpen' = TRUE
    /\ pc' = "new_page"
    /\ UNCHANGED << otherState, callVars, pagChanged, driver, browserOpen, pageVars,
                    loopVars, outcome, result, histVars >>

NewContextFails ==
    /\ pc = "new_context"
    /\ Raise("new_context")
    /\ UNCHANGED << otherState, callVars, pagChanged, browserVars, pageVars, loopVars,
                    outcome, batchVars, pagCalls, lastPag >>

\* page = await context.new_page()
NewPage ==
    /\ pc = "new_page"
    /\ pc' = "goto"
    /\ UNCHANGED << otherState, callVars, pagChanged, browserVars, pageVars,
                    loopVars, outcome, result, histVars >>

NewPageFails ==
    /\ pc = "new_page"
    /\ Raise("new_page")
    /\ UNCHANGED << otherState, callVars, pagChanged, browserVars, pageVars, loopVars,
                    outcome, batchVars, pagCalls, lastPag >>

\* await page.goto(url, wait_until='domcontentloaded')
Goto ==
    /\ pc = "goto"
    /\ \E h \in Served(url, 1) :
          /\ pageUrl' = url
          /\ pageHtml' = h
    /\ pc' = "goto_wait"
    /\ UNCHANGED << otherState, callVars, pagChanged, browserVars, loopVars,
                    outcome, result, histVars >>

GotoFails ==
    /\ pc = "goto"
    /\ Raise("goto")
    /\ UNCHANGED << otherState, callVars, pagChanged, browserVars, pageVars, loopVars,
                    outcome, batchVars, pagCalls, lastPag >>

\* await page.wait_for_timeout(2000); page_num = 1; the first test of the
\* loop condition
GotoWait ==
    /\ pc = "goto_wait"
    /\ \E h \in Changes : pageHtml' = h
    /\ page_num' = 1
    /\ IF LoopCondition(all_reviews, max_reviews, 1)
       THEN pc' = "loader" /\ UNCHANGED result
       ELSE Finish(all_reviews, successful_pages)
    /\ UNCHANGED << otherState, callVars, pagChanged, browserVars, pageUrl, all_reviews,
                    successful_pages, combineVars, selIdx, beforeVars, outcome, histVars >>

\* the wait raises with the page loaded
GotoWaitFails ==
    /\ pc = "goto_wait"
    /\ Raise("goto_wait")
    /\ UNCHANGED << otherState, callVars, pagChanged, browserVars, pageVars, loopVars,
                    outcome, batchVars, pagCalls, lastPag >>

\* ------------------------------------- handle_dynamic_loading, as called
\* The loader awaits twice at least; scrolling and the load-more buttons may
\* change the document; no exception leaves the loader.

\* an await of handle_dynamic_loading returns, or raises into one of its
\* handlers, and the loader goes on to its next await
LoaderAwait ==
    /\ pc \in {"loader", "loading"}
    /\ \E h \in Changes : pageHtml' = h
    /\ pc' = "loading"
    /\ lastPag' = "none"
    /\ pagChanged' = 0
    /\ UNCHANGED << otherState, callVars, browserVars, pageUrl, loopVars,
                    outcome, result, raisedAt, batchVars, pagCalls >>

\* the last await of handle_dynamic_loading returns or raises, and the loader
\* returns
LoaderReturns ==
    /\ pc = "loading"
    /\ \E h \in Changes : pageHtml' = h
    /\ pc' = "extract"
    /\ UNCHANGED << otherState, callVars, pagChanged, browserVars, pageUrl, loopVars,
                    outcome, result, histVars >>

\* ------------------------------- combine_extraction_methods, as called

\* new_reviews is returned to scrape_reviews: the merge into all_reviews and
\* what the loop does next, up to the first await of handle_pagination or of
\* the finally clause
ReturnBatch(new_reviews) ==
    LET merged == Merged(all_reviews, new_reviews)
        counted == CountPage(successful_pages, Len(all_reviews), merged)
    IN  /\ extractions' = extractions + 1
        /\ seen' = seen \cup Bodies(new_reviews)
        /\ lastNew' = Bodies(new_reviews) \ seen
        /\ combined' = <<>>
        /\ has_selectors' = FALSE
        /\ IF new_reviews = <<>>
           THEN /\ Finish(all_reviews, successful_pages)
                /\ UNCHANGED << sessionVars, selIdx, pagCalls >>
           ELSE /\ all_reviews' = merged
                /\ successful_pages' = counted
                /\ page_num' = page_num
                /\ IF FoundNew(Len(all_reviews), merged) /\ Len(merged) < max_reviews
                   THEN /\ pc' = "wait_selector"
                        /\ selIdx' = 1
                        /\ pagCalls' = pagCalls + 1
                        /\ UNCHANGED result
                   ELSE /\ Finish(merged, counted)
                        /\ UNCHANGED << selIdx, pagCalls >>

\* traditional_reviews = await extract_reviews_traditional(page), on the
\* document the page shows when the script runs, and the first merge
ExtractStatic ==
    /\ pc = "extract"
    /\ \E h \in Changes :
          /\ pageHtml' = h
          /\ combined' = StaticReviews[h]
    /\ pc' = "content"
    /\ UNCHANGED << otherState, callVars, pagChanged, browserVars, pageUrl, sessionVars,
                    has_selectors, selIdx, beforeVars, outcome, result, histVars >>

\* the page script of extract_reviews_traditional raises: the exception
\* passes through combine_extraction_methods, which calls it outside its try
ExtractStaticFails ==
    /\ pc = "extract"
    /\ Raise("extract")
    /\ UNCHANGED << otherState, callVars, pagChanged, browserVars, pageVars, loopVars,
                    outcome, batchVars, pagCalls, lastPag >>

\* html_content = await page.content()
ExtractContent ==
    /\ pc = "content"
    /\ \E h \in Changes : pageHtml' = h
    /\ pc' = "client_enter"
    /\ UNCHANGED << otherState, callVars, pagChanged, browserVars, pageUrl, loopVars,
                    outcome, result, histVars >>

\* page.content() raises: except Exception, return all_reviews
ExtractContentFails ==
    /\ pc = "content"
    /\ ReturnBatch(combined)
    /\ UNCHANGED << otherState, callVars, pagChanged, browserVars, pageVars, beforeVars,
                    outcome, raisedAt, lastPag >>

\* ... = await get_dynamic_selectors(html_content), query_ollama: async with
\* httpx.AsyncClient() as client: __aenter__ returns, or it raises, query_ollama
\* returns "" from its except clause and the lists hold the fallback selectors
ExtractClientEnter ==
    /\ pc = "client_enter"
    /\ \E h \in Changes : pageHtml' = h
    /\ \E ok \in BOOLEAN :
          /\ has_selectors' = ~ok
          /\ pc' = IF ok THEN "post" ELSE "assisted"
    /\ UNCHANGED << otherState, callVars, pagChanged, browserVars, pageUrl, sessionVars,
                    combined, selIdx, beforeVars, outcome, result, histVars >>

\* query_ollama: response = await client.post(...) and what it returns: a
\* string (the answer, or "" for a status other than 200), from which the lists
\* are filled, or a value that is no string, for which they are empty; when
\* the await raises, "" is returned once the async with statement is left
ExtractPost ==
    /\ pc = "post"
    /\ \E h \in Changes : pageHtml' = h
    /\ \E ok, found \in BOOLEAN : has_selectors' = (~ok \/ found)
    /\ pc' = "client_exit"
    /\ UNCHANGED << otherState, callVars, pagChanged, browserVars, pageUrl, sessionVars,
                    combined, selIdx, beforeVars, outcome, result, histVars >>

\* query_ollama: the async with statement is left (__aexit__ is awaited; when
\* it raises, "" is returned), and get_dynamic_selectors builds the three
\* lists: the parsed and the fallback selectors, or nothing (its except clause)
ExtractClientExit ==
    /\ pc = "client_exit"
    /\ \E h \in Changes : pageHtml' = h
    /\ \E ok \in BOOLEAN : has_selectors' = (~ok \/ has_selectors)
    /\ pc' = "assisted"
    /\ UNCHANGED << otherState, callVars, pagChanged, browserVars, pageUrl, sessionVars,
                    combined, selIdx, beforeVars, outcome, result, histVars >>

\* llm_reviews = await page.evaluate(...), on the document the page shows when
\* the script runs, the second merge and the return
ExtractAssisted ==
    /\ pc = "assisted"
    /\ \E h \in Changes :
          /\ pageHtml' = h
          /\ ReturnBatch(MergeAssisted(combined, IF has_selectors THEN AssistedReviews[h]
                                              ELSE <<>>))
    /\ UNCHANGED << otherState, callVars, pagChanged, browserVars, pageUrl, beforeVars,
                    outcome, raisedAt, lastPag >>

\* the assisted script raises: except Exception, return all_reviews
ExtractAssistedFails ==
    /\ pc = "assisted"
    /\ ReturnBatch(combined)
    /\ UNCHANGED << otherState, callVars, pagChanged, browserVars, pageVars, beforeVars,
                    outcome, raisedAt, lastPag >>

\* ---------------------------------------------------- handle_pagination

\* the awaits of one entry of the selector list
ClickPcs ==
    { "wait_selector", "query_selector", "is_visible", "before_content", "scroll_into_view",
      "pre_click_wait", "click", "js_click", "load_state", "settle_wait", "after_content" }

\* the awaits of the URL modification
RewritePcs == { "rewrite_goto", "rewrite_wait" }

\* where a click can lead: the document is replaced in place (the URL stays),
\* or the link to the second page is followed; the long site has no such
\* links, its pages are reached by the page parameter only
ClickTargets(u) ==
    IF UrlNetloc(u) = UrlNetloc(LongUrl) THEN {}
    ELSE { u, <<"http:", "//", "h", "/p", "?", "page=", "2">> }

\* the URL and the document the page may show when an await that follows the
\* click returns
Navigations ==
    IF ClickTargets(pageUrl) = {} THEN { << pageUrl, pageHtml >> }
    ELSE ClickTargets(pageUrl) \X Served(url, page_num + 1)

\* has_next is True: page_num += 1 and the loop condition is tested again
ReturnTrue ==
    /\ selIdx' = 0
    /\ before_url' = <<>>
    /\ before_html' = 0
    /\ page_num' = page_num + 1
    /\ UNCHANGED << all_reviews, successful_pages >>
    /\ IF LoopCondition(all_reviews, max_reviews, page_num + 1)
       THEN pc' = "loader" /\ UNCHANGED result
       ELSE Finish(all_reviews, successful_pages)

\* a loop that goes on to the next page whatever has_next is
ReturnFalseGoesOn == ReturnTrue

\* has_next is False: break
ReturnFalse ==
    /\ selIdx' = 0
    /\ before_url' = <<>>
    /\ before_html' = 0
    /\ Finish(all_reviews, successful_pages)
    /\ UNCHANGED sessionVars

\* continue: the next entry of the selector list (before_url and before_html
\* are assigned again before they are read); after the last entry the URL
\* modification up to its first await: next_url of current_url = page.url, and
\* return False for a next_url without a scheme or a host
NextSelector ==
    IF selIdx < NumSelectors
    THEN /\ selIdx' = selIdx + 1
         /\ pc' = "wait_selector"
         /\ before_url' = <<>>
         /\ before_html' = 0
         /\ UNCHANGED << sessionVars, result, lastPag >>
    ELSE IF ValidUrl(NextUrl(pageUrl', page_num))
         THEN /\ selIdx' = selIdx
              /\ pc' = "rewrite_goto"
              /\ before_url' = <<>>
              /\ before_html' = 0
              /\ UNCHANGED << sessionVars, result, lastPag >>
         ELSE /\ lastPag' = "invalid"
              /\ ReturnFalse

\* history: the handler of the selector is entered with before_url and
\* before_html assigned and the page differing from them
NoteChange ==
    pagChanged' = IF before_html # 0 /\ << pageUrl, pageHtml >> # << before_url, before_html >>
                  THEN pagCalls ELSE pagChanged

\* await page.wait_for_selector(selector, timeout=5000)
WaitSelector ==
    /\ pc = "wait_selector"
    /\ selIdx <= MaxMatched
    /\ \E h \in Changes : pageHtml' = h
    /\ pc' = "query_selector"
    /\ UNCHANGED << otherState, callVars, pagChanged, browserVars, pageUrl, loopVars,
                    outcome, result, histVars >>

\* wait_for_selector raises (the selector matches nothing in time): continue
WaitSelectorFails ==
    /\ pc = "wait_selector"
    /\ UNCHANGED pageVars
    /\ NextSelector
    /\ UNCHANGED << otherState, callVars, pagChanged, browserVars, combineVars,
                    outcome, raisedAt, batchVars, pagCalls >>

\* element = await page.query_selector(selector); if element:
QuerySelector ==
    /\ pc = "query_selector"
    /\ \E h \in Changes : pageHtml' = h
    /\ UNCHANGED pageUrl
    /\ \E found \in BOOLEAN :
          IF found
          THEN /\ pc' = "is_visible"
               /\ UNCHANGED << sessionVars, selIdx, beforeVars, result, lastPag >>
          ELSE NextSelector
    /\ UNCHANGED << otherState, callVars, pagChanged, browserVars, combineVars,
                    outcome, raisedAt, batchVars, pagCalls >>

\* if await element.is_visible(): before_url = page.url
IsVisible ==
    /\ pc = "is_visible"
    /\ \E h \in Changes : pageHtml' = h
    /\ UNCHANGED pageUrl
    /\ \E visible \in BOOLEAN :
          IF visible
          THEN /\ pc' = "before_content"
               /\ before_url' = pageUrl
               /\ UNCHANGED << sessionVars, selIdx, before_html, result, lastPag >>
          ELSE NextSelector
    /\ UNCHANGED << otherState, callVars, pagChanged, browserVars, combineVars,
                    outcome, raisedAt, batchVars, pagCalls >>

\* before_html = await page.content()
BeforeContent ==
    /\ pc = "before_content"
    /\ \E h \in Changes :
          /\ pageHtml' = h
          /\ before_html' = h
    /\ pc' = "scroll_into_view"
    /\ UNCHANGED << otherState, callVars, pagChanged, browserVars, pageUrl, sessionVars,
                    combineVars, selIdx, before_url, outcome, result, histVars >>

\* await element.scroll_into_view_if_needed()
ScrollIntoView ==
    /\ pc = "scroll_into_view"
    /\ pc' = "pre_click_wait"
    /\ UNCHANGED << otherState, callVars, pagChanged, browserVars, pageVars, loopVars,
                    outcome, result, histVars >>

\* await page.wait_for_timeout(1000)
PreClickWait ==
    /\ pc = "pre_click_wait"
    /\ pc' = "click"
    /\ UNCHANGED << otherState, callVars, pagChanged, browserVars, pageVars, loopVars,
                    outcome, result, histVars >>

\* await element.click(timeout=5000)
Click ==
    /\ pc = "click"
    /\ \E n \in Navigations :
          /\ pageUrl' = n[1]
          /\ pageHtml' = n[2]
    /\ pc' = "load_state"
    /\ UNCHANGED << otherState, callVars, pagChanged, browserVars, loopVars, outcome, result,
                    histVars >>

\* element.click raises: except, await page.evaluate('(element) => element.click()', element)
ClickFails ==
    /\ pc = "click"
    /\ pc' = "js_click"
    /\ UNCHANGED << otherState, callVars, pagChanged, browserVars, pageVars, loopVars,
                    outcome, result, histVars >>

\* the click by the page script returns
JsClick ==
    /\ pc = "js_click"
    /\ \E n \in Navigations :
          /\ pageUrl' = n[1]
          /\ pageHtml' = n[2]
    /\ pc' = "load_state"
    /\ UNCHANGED << otherState, callVars, pagChanged, browserVars, loopVars, outcome, result,
                    histVars >>

\* await page.wait_for_load_state('networkidle', timeout=5000); after_url = page.url
LoadState ==
    /\ pc = "load_state"
    /\ \E n \in Navigations :
          /\ pageUrl' = n[1]
          /\ pageHtml' = n[2]
    /\ pc' = "after_content"
    /\ UNCHANGED << otherState, callVars, pagChanged, browserVars, loopVars, outcome, result,
                    histVars >>

\* wait_for_load_state raises: except, await page.wait_for_timeout(2000)
LoadStateFails ==
    /\ pc = "load_state"
    /\ pc' = "settle_wait"
    /\ UNCHANGED << otherState, callVars, pagChanged, browserVars, pageVars, loopVars,
                    outcome, result, histVars >>

\* the wait of the handler returns; after_url = page.url
SettleWait ==
    /\ pc = "settle_wait"
    /\ \E n \in Navigations :
          /\ pageUrl' = n[1]
          /\ pageHtml' = n[2]
    /\ pc' = "after_content"
    /\ UNCHANGED << otherState, callVars, pagChanged, browserVars, loopVars, outcome, result,
                    histVars >>

\* after_html = await page.content() and the comparison: return True when the
\* URL or the HTML differs, else the next selector
AfterContent ==
    /\ pc = "after_content"
    /\ \E h \in Changes : pageHtml' = h
    /\ UNCHANGED pageUrl
    /\ IF before_url # pageUrl \/ before_html # pageHtml'
       THEN /\ lastPag' = "click"
            /\ ReturnTrue
       ELSE NextSelector
    /\ UNCHANGED << otherState, callVars, pagChanged, browserVars, combineVars,
                    outcome, raisedAt, batchVars, pagCalls >>

\* the awaits of a selector whose exception the handler of the selector
\* catches (except Exception as e: continue)
CaughtPcs ==
    { "query_selector", "is_visible", "before_content", "scroll_into_view", "pre_click_wait",
      "js_click", "settle_wait", "after_content" }

\* an await of the selector raises: the next selector is tried
SelectorFails ==
    /\ pc \in CaughtPcs
    /\ UNCHANGED pageVars
    /\ NoteChange
    /\ NextSelector
    /\ UNCHANGED << otherState, callVars, browserVars, combineVars,
                    outcome, raisedAt, batchVars, pagCalls >>

\* await page.goto(next_url, wait_until='domcontentloaded')
RewriteGoto ==
    /\ pc = "rewrite_goto"
    /\ \E h \in Served(url, page_num + 1) :
          /\ pageUrl' = NextUrl(pageUrl, page_num)
          /\ pageHtml' = h
    /\ pc' = "rewrite_wait"
    /\ UNCHANGED << otherState, callVars, pagChanged, browserVars, loopVars,
                    outcome, result, histVars >>

\* page.goto(next_url) raises: the exception is logged and False is returned
RewriteGotoFails ==
    /\ pc = "rewrite_goto"
    /\ lastPag' = "failed"
    /\ ReturnFalse
    /\ UNCHANGED << otherState, callVars, pagChanged, browserVars, pageVars, combineVars,
                    outcome, raisedAt, batchVars, pagCalls >>

\* await page.wait_for_timeout(2000); return True
RewriteWait ==
    /\ pc = "rewrite_wait"
    /\ \E h \in Changes : pageHtml' = h
    /\ lastPag' = "rewrite"
    /\ ReturnTrue
    /\ UNCHANGED << otherState, callVars, pagChanged, browserVars, pageUrl, combineVars,
                    outcome, raisedAt, batchVars, pagCalls >>

\* the wait raises on the page navigated to: the exception is logged and
\* False is returned
RewriteWaitFails ==
    /\ pc = "rewrite_wait"
    /\ lastPag' = "failed"
    /\ ReturnFalse
    /\ UNCHANGED << otherState, callVars, pagChanged, browserVars, pageVars, combineVars,
                    outcome, raisedAt, batchVars, pagCalls >>

\* ------------------------------------------------------------- the exit

\* finally: await context.close()
CloseContext ==
    /\ pc = "close_context"
    /\ contextOpen' = FALSE
    /\ pc' = "close_browser"
    /\ UNCHANGED << otherState, callVars, pagChanged, driver, browserOpen, pageVars,
                    loopVars, outcome, result, histVars >>

\* context.close() raises: browser.close() is not reached
CloseContextFails ==
    /\ pc = "close_context"
    /\ RaiseFinally("close_context")
    /\ UNCHANGED << otherState, callVars, pagChanged, browserVars, pageVars, loopVars,
                    outcome, batchVars, pagCalls, lastPag >>

\* finally: await browser.close()
CloseBrowser ==
    /\ pc = "close_browser"
    /\ browserOpen' = FALSE
    /\ pc' = "exit"
    /\ UNCHANGED << otherState, callVars, pagChanged, driver, contextOpen, pageVars,
                    loopVars, outcome, result, histVars >>

\* browser.close() raises
CloseBrowserFails ==
    /\ pc = "close_browser"
    /\ RaiseFinally("close_browser")
    /\ UNCHANGED << otherState, callVars, pagChanged, browserVars, pageVars, loopVars,
                    outcome, batchVars, pagCalls, lastPag >>

\* the async with statement is left (__aexit__ returns) and the result is
\* returned
Exit ==
    /\ pc = "exit"
    /\ driver' = "stopped"
    /\ outcome' = "returned"
    /\ pc' = "done"
    /\ UNCHANGED << otherState, callVars, pagChanged, browserOpen, contextOpen, pageVars,
                    loopVars, result, histVars >>

\* __aexit__ raises before the driver is stopped: scrape_reviews raises
ExitFails ==
    /\ pc = "exit"
    /\ raisedAt' = Append(raisedAt, "exit")
    /\ result' = None
    /\ outcome' = "raised"
    /\ pc' = "done"
    /\ UNCHANGED << otherState, callVars, pagChanged, browserVars, pageVars,
                    loopVars, batchVars, pagCalls, lastPag >>

\* __aexit__ is awaited with the exception that left the body: the driver is
\* stopped and scrape_reviews raises
Unwind ==
    /\ pc = "unwind"
    /\ driver' = "stopped"
    /\ outcome' = "raised"
    /\ pc' = "done"
    /\ UNCHANGED << otherState, callVars, pagChanged, browserOpen, contextOpen, pageVars,
                    loopVars, result, histVars >>

\* __aexit__ raises before the driver is stopped, while the exception leaves
UnwindFails ==
    /\ pc = "unwind"
    /\ raisedAt' = Append(raisedAt, "exit")
    /\ outcome' = "raised"
    /\ pc' = "done"
    /\ UNCHANGED << otherState, callVars, pagChanged, browserVars, pageVars,
                    loopVars, result, batchVars, pagCalls, lastPag >>

\* ---------------------------------------------------------- get_reviews

\* an answer of the endpoint
HttpResponse(status, body) == [ status |-> status, body |-> body ]

\* the values of max_reviews a request is accepted with: Query(500, ge=10, le=1000)
AcceptedMaxReviews == MinReviewsLimit..MaxReviewsLimit

\* get_reviews once scrape_reviews has ended: ReviewResponse(**result) when it
\* returned, HTTPException(status_code=500) when it raised
get_reviews(out, res) ==
    IF out = "raised" THEN HttpResponse(500, None) ELSE HttpResponse(200, res)

\* a request whose max_reviews is below 10 or above 1000 is answered with
\* status 422 before the body of get_reviews runs: scrape_reviews is not called
Refuse ==
    /\ pc = "start"
    /\ response = None
    /\ max_reviews \notin AcceptedMaxReviews
    /\ response' = Some(HttpResponse(422, None))
    /\ pc' = "refused"
    /\ UNCHANGED << otherState, url, max_reviews, pagChanged, browserVars, pageVars,
                    loopVars, outcome, result, histVars >>

\* the endpoint answers the request that called scrape_reviews; a call with
\* another max_reviews was made directly and has no request to answer
Respond ==
    /\ pc = "done"
    /\ response = None
    /\ max_reviews \in AcceptedMaxReviews
    /\ response' = Some(get_reviews(outcome, result))
    /\ UNCHANGED << otherState, url, max_reviews, pagChanged, pc, browserVars, pageVars,
                    loopVars, outcome, result, histVars >>

Next ==
    \/ Start
    \/ StartFails
    \/ Launch
    \/ LaunchFails
    \/ NewContext
    \/ NewContextFails
    \/ NewPage
    \/ NewPageFails
    \/ Goto
    \/ GotoFails
    \/ GotoWait
    \/ GotoWaitFails
    \/ LoaderAwait
    \/ LoaderReturns
    \/ ExtractStatic
    \/ ExtractStaticFails
    \/ ExtractContent
    \/ ExtractContentFails
    \/ ExtractClientEnter
    \/ ExtractPost
    \/ ExtractClientExit
    \/ ExtractAssisted
    \/ ExtractAssistedFails
    \/ WaitSelector
    \/ WaitSelectorFails
    \/ QuerySelector
    \/ IsVisible
    \/ BeforeContent
    \/ ScrollIntoView
    \/ PreClickWait
    \/ Click
    \/ ClickFails
    \/ JsClick
    \/ LoadState
    \/ LoadStateFails
    \/ SettleWait
    \/ AfterContent
    \/ SelectorFails
    \/ RewriteGoto
    \/ RewriteGotoFails
    \/ RewriteWait
    \/ RewriteWaitFails
    \/ CloseContext
    \/ CloseContextFails
    \/ CloseBrowser
    \/ CloseBrowserFails
    \/ Exit
    \/ ExitFails
    \/ Unwind
    \/ UnwindFails
    \/ Refuse
    \/ Respond

Spec == Init /\ [][Next]_vars

\* ------------------------------------------------ handle_dynamic_loading
\* One step for every await of the loader; each await returns or raises.

\* the awaits of the loader
LoaderAwaits ==
    { "scroll", "scroll_wait", "height", "same_wait", "error_wait", "pause",
      "query", "visible", "click", "click_wait" }

\* handlers without the enclosing try statement of the function
HandlerInnerOnly(step) ==
    IF step \in {"scroll", "scroll_wait", "height", "same_wait"} THEN "scroll_error"
    ELSE IF step \in {"query", "visible", "click", "click_wait"} THEN "selector"
    ELSE "none"

\* the except clause that catches an exception raised at step: that of the
\* scroll round, that of the load-more selector, or that of the function
Handler(step) ==
    IF step \in {"scroll", "scroll_wait", "height", "same_wait"} THEN "scroll_error"
    ELSE IF step \in {"query", "visible", "click", "click_wait"} THEN "selector"
    ELSE "outer"

\* the loader returns (None)
LoaderReturn ==
    /\ ld_pc' = "done"
    /\ ld_outcome' = "returned"

\* the while loop of a selector is left: the next selector, or the end of the list
NextLoadMore ==
    /\ ld_clicks' = 0
    /\ IF selector_i < NumLoadMore
       THEN selector_i' = selector_i + 1 /\ ld_pc' = "query" /\ UNCHANGED ld_outcome
       ELSE selector_i' = selector_i /\ LoaderReturn

\* the call: current_height = 0 and the first scroll round
LoaderInit ==
    /\ SessionIdle
    /\ CleanIdle
    /\ ExtractIdle
    /\ ConcIdle
    /\ ld_pc = "scroll"
    /\ scroll_round = 0
    /\ current_height = 0
    /\ selector_i = 0
    /\ ld_clicks = 0
    /\ ld_raised = {}
    /\ ld_outcome = "running"

\* await page.evaluate(window.scrollTo ...)
ScrollDown ==
    /\ ld_pc = "scroll"
    /\ ld_pc' = "scroll_wait"
    /\ UNCHANGED << notLoader, scroll_round, current_height, selector_i, ld_clicks,
                    ld_raised, ld_outcome >>

\* await page.wait_for_timeout(3000)
ScrollWait ==
    /\ ld_pc = "scroll_wait"
    /\ ld_pc' = "height"
    /\ UNCHANGED << notLoader, scroll_round, current_height, selector_i, ld_clicks,
                    ld_raised, ld_outcome >>

\* new_height = await page.evaluate('document.body.scrollHeight') and the
\* comparison: the extra wait and break, or the next round
ReadHeight ==
    /\ ld_pc = "height"
    /\ \E new_height \in 0..MaxHeight :
          IF new_height = current_height
          THEN /\ ld_pc' = "same_wait"
               /\ UNCHANGED << scroll_round, current_height >>
          ELSE /\ current_height' = new_height
               /\ scroll_round' = scroll_round + 1
               /\ ld_pc' = IF scroll_round + 1 < ScrollRounds THEN "scroll" ELSE "pause"
    /\ UNCHANGED << notLoader, selector_i, ld_clicks, ld_raised, ld_outcome >>

\* await page.wait_for_timeout(2000); break
SameHeightWait ==
    /\ ld_pc = "same_wait"
    /\ ld_pc' = "pause"
    /\ UNCHANGED << notLoader, scroll_round, current_height, selector_i, ld_clicks,
                    ld_raised, ld_outcome >>

\* except Exception as scroll_error: await page.wait_for_timeout(2000); break
ScrollErrorWait ==
    /\ ld_pc = "error_wait"
    /\ ld_pc' = "pause"
    /\ UNCHANGED << notLoader, scroll_round, current_height, selector_i, ld_clicks,
                    ld_raised, ld_outcome >>

\* await page.wait_for_timeout(2000) before the buttons; the first selector
Pause ==
    /\ ld_pc = "pause"
    /\ selector_i' = 1
    /\ ld_pc' = "query"
    /\ UNCHANGED << notLoader, scroll_round, current_height, ld_clicks,
                    ld_raised, ld_outcome >>

\* button = await page.query_selector(selector); if not button: break
QueryButton ==
    /\ ld_pc = "query"
    /\ \E found \in BOOLEAN :
          IF found
          THEN ld_pc' = "visible" /\ UNCHANGED << selector_i, ld_clicks, ld_outcome >>
          ELSE NextLoadMore
    /\ UNCHANGED << notLoader, scroll_round, current_height, ld_raised >>

\* if not await button.is_visible(): break
ButtonVisible ==
    /\ ld_pc = "visible"
    /\ \E visible \in BOOLEAN :
          IF visible
          THEN ld_pc' = "click" /\ UNCHANGED << selector_i, ld_clicks, ld_outcome >>
          ELSE NextLoadMore
    /\ UNCHANGED << notLoader, scroll_round, current_height, ld_raised >>

\* await button.click()
ClickButton ==
    /\ ld_pc = "click"
    /\ ld_clicks' = Min(ld_clicks + 1, MaxClicks)
    /\ ld_pc' = "click_wait"
    /\ UNCHANGED << notLoader, scroll_round, current_height, selector_i,
                    ld_raised, ld_outcome >>

\* await page.wait_for_timeout(3000), then the while loop again
ClickWait ==
    /\ ld_pc = "click_wait"
    /\ ld_pc' = "query"
    /\ UNCHANGED << notLoader, scroll_round, current_height, selector_i, ld_clicks,
                    ld_raised, ld_outcome >>

\* the await the loader is at raises an exception
LoaderRaises ==
    /\ ld_pc \in LoaderAwaits
    /\ ld_raised' = ld_raised \cup {ld_pc}
    /\ CASE Handler(ld_pc) = "scroll_error" ->
               /\ ld_pc' = "error_wait"
               /\ UNCHANGED << selector_i, ld_clicks, ld_outcome >>
         [] Handler(ld_pc) = "selector" -> NextLoadMore
         [] Handler(ld_pc) = "outer" ->
               /\ LoaderReturn
               /\ UNCHANGED << selector_i, ld_clicks >>
         [] OTHER ->
               /\ ld_pc' = "done"
               /\ ld_outcome' = "raised"
               /\ UNCHANGED << selector_i, ld_clicks >>
    /\ UNCHANGED << notLoader, scroll_round, current_height >>

LoaderNext ==
    \/ ScrollDown
    \/ ScrollWait
    \/ ReadHeight
    \/ SameHeightWait
    \/ ScrollErrorWait
    \/ Pause
    \/ QueryButton
    \/ ButtonVisible
    \/ ClickButton
    \/ ClickWait
    \/ LoaderRaises

\* every browser call returns: the loader takes its next step
LoaderSpec == LoaderInit /\ [][LoaderNext]_vars /\ WF_vars(LoaderNext)

\* ------------------------------------ the selector-suggestion service
\* A response text is a sequence of lines (result.split('\n')), a line a
\* sequence of atoms: the markers, the quote characters, selectors and other
\* text.

\* the characters of the class ['"]
Quotes == { "'", "\"" }

\* re.findall(r'[\'"]([^\'"]+)[\'"]', line) : the non-empty quoted pieces
FindQuoted[line \in Text] ==
    LET qs == { i \in 1..Len(line) : line[i] \in Quotes }
    IN  IF qs = {} THEN <<>>
        ELSE LET i == CHOOSE k \in qs : \A j \in qs : k <= j
                 later == { j \in qs : j > i }
             IN  IF later = {} THEN <<>>
                 ELSE LET j == CHOOSE k \in later : \A m \in later : k <= m
                      IN  IF j = i + 1 THEN FindQuoted[SubSeq(line, i + 1, Len(line))]
                          ELSE << SubSeq(line, i + 1, j - 1) >>
                                   \o FindQuoted[SubSeq(line, j + 1, Len(line))]

\* marker in line
HasMarker(line, marker) == \E i \in 1..Len(line) : line[i] = marker

\* line.split(marker)[1] : what stands between the first marker and the next
AfterMarker[line \in Text, marker \in STRING] ==
    LET ms == { i \in 1..Len(line) : line[i] = marker }
        i == CHOOSE k \in ms : \A j \in ms : k <= j
        later == { j \in ms : j > i }
    IN  IF later = {} THEN SubSeq(line, i + 1, Len(line))
        ELSE SubSeq(line, i + 1, (CHOOSE k \in later : \A m \in later : k <= m) - 1)

\* the three lists of get_dynamic_selectors
SelectorLists == [ containers : Seq(Text), content : Seq(Text), ratings : Seq(Text) ]

NoSelectors == [ containers |-> <<>>, content |-> <<>>, ratings |-> <<>> ]

\* the list a line switches to (current_list stays when it has no marker)
ListOfLine(line, current_list) ==
    IF HasMarker(line, "CONTAINERS:") THEN "containers"
    ELSE IF HasMarker(line, "CONTENT:") THEN "content"
    ELSE IF HasMarker(line, "RATINGS:") THEN "ratings"
    ELSE current_list

\* what of the line is searched for selectors
RestOfLine(line) ==
    IF HasMarker(line, "CONTAINERS:") THEN AfterMarker[line, "CONTAINERS:"]
    ELSE IF HasMarker(line, "CONTENT:") THEN AfterMarker[line, "CONTENT:"]
    ELSE IF HasMarker(line, "RATINGS:") THEN AfterMarker[line, "RATINGS:"]
    ELSE line

\* for line in result.split('\n'), from the lines given on ("none": current_list is None)
ParseLines[lines \in Seq(Text), current_list \in STRING, lists \in SelectorLists] ==
    IF lines = <<>> THEN lists
    ELSE LET target == ListOfLine(Head(lines), current_list)
             selectors == FindQuoted[RestOfLine(Head(lines))]
         IN  ParseLines[Tail(lines), target,
                        IF target = "none" THEN lists
                        ELSE [lists EXCEPT ![target] = @ \o selectors]]

\* the fallback selectors of the three categories
FallbackContainers ==
    << <<".review-item">>, <<"[data-review-id]">>, <<"[class*=", "\"", "review-container", "\"", "]">>,
       <<".jdgm-rev">>, <<".yotpo-review">> >>

FallbackContent ==
    << <<"[class*=", "\"", "review-content", "\"", "]">>,
       <<"[class*=", "\"", "review-body", "\"", "]">>, <<"p">> >>

FallbackRatings ==
    << <<"[class*=", "\"", "rating", "\"", "]">>, <<"[class*=", "\"", "stars", "\"", "]">>,
       <<"[data-rating]">> >>

\* if len(list) < 2: list.extend(fallback)
WithFallback(list, fallback) == IF Len(list) < 2 THEN list \o fallback ELSE list

\* the empty string, as query_ollama returns it on every failure
EmptyText == [ kind |-> "str", lines |-> << <<>> >> ]

\* query_ollama: post is what client.post and response.json() do: the request
\* fails, the status is not 200, the body is no JSON object with a "response"
\* entry, or the entry's value is returned
query_ollama(post) == IF post.kind = "ok" THEN post.response ELSE EmptyText

\* get_dynamic_selectors on what query_ollama returned: a value that is no
\* string makes result.split raise, and the except clause returns three empty lists
get_dynamic_selectors(text) ==
    IF text.kind # "str" THEN NoSelectors
    ELSE LET parsed == ParseLines[text.lines, "none", NoSelectors]
         IN  [ containers |-> WithFallback(parsed.containers, FallbackContainers),
               content    |-> WithFallback(parsed.content, FallbackContent),
               ratings    |-> WithFallback(parsed.ratings, FallbackRatings) ]

\* the response texts of the service
Responses ==
    { \* the three sections, as asked for
      << <<"CONTAINERS:", " ", "[", "\"", ".rev", "\"", ",", " ", "\"", ".item", "\"", "]">>,
         <<"CONTENT:", " ", "[", "\"", ".body", "\"", ",", " ", "\"", "p", "\"", "]">>,
         <<"RATINGS:", " ", "[", "'", ".stars", "'", ",", " ", "'", ".rate", "'", "]">> >>,
      \* one section with one entry, the others missing
      << <<"CONTAINERS:", " ", "[", "\"", ".rev", "\"", "]">> >>,
      \* text around the sections, a section that goes on on the next line
      << <<"Here", " ", "are", " ", "the", " ", "\"", "selectors", "\"", ":">>,
         <<"CONTENT:", " ", "[", "\"", ".body", "\"", ",">>,
         <<" ", "\"", ".text", "\"", "]">>,
         <<"Hope", " ", "this", " ", "helps">> >>,
      \* two markers on one line, a marker twice, empty quotes
      << <<"RATINGS:", " ", "[", "\"", "\"", "]", " ", "CONTAINERS:", " ", "[", "'", ".a", "'", "]",
           " ", "CONTAINERS:", " ", "[", "'", ".b", "'", "]">>,
         <<"RATINGS:", "'", ".r1", "'", "CONTENT:", "'", ".c1", "\"", "'", ".c2", "'">> >>,
      \* no section at all
      << <<"I", " ", "cannot", " ", "help">> >> }

\* what client.post and response.json() can do
Posts ==
    { [ kind |-> "unreachable" ], [ kind |-> "status" ], [ kind |-> "badjson" ],
      [ kind |-> "ok", response |-> EmptyText ],
      [ kind |-> "ok", response |-> [ kind |-> "other" ] ] }
        \cup { [ kind |-> "ok", response |-> [ kind |-> "str", lines |-> t ] ] : t \in Responses }

\* the failure of the suggestion service a post stands for ("" when it is none)
ServiceFailure(post) ==
    IF post.kind # "ok" THEN post.kind
    ELSE IF post.response.kind # "str" THEN "malformed"
    ELSE IF post.response = EmptyText THEN "empty"
    ELSE IF ParseLines[post.response.lines, "none", NoSelectors] = NoSelectors THEN "malformed"
    ELSE ""

\* the containers the assisted script finds in document h with the selectors
\* given: none without a container or a content selector, and no rating
\* element without a rating selector
FoundContainers(h, selectors) ==
    IF selectors.containers = <<>> \/ selectors.content = <<>> THEN <<>>
    ELSE IF selectors.ratings = <<>>
         THEN [ i \in 1..Len(Dom(h).containers) |->
                  [ Dom(h).containers[i] EXCEPT !.ratingTexts = <<>> ] ]
         ELSE Dom(h).containers

\* --------------------------------------- combine_extraction_methods, run
\* One call on a page, a step per await; the page may show another document
\* when an await returns.

\* an except clause that returns an empty list
ReturnNothing(all) == <<>>

\* except Exception as e: logger.error(...) ; return all_reviews
ReturnAfterError(all) == all

\* the return of combine_extraction_methods
ExtractReturn(all) ==
    /\ ex_pc' = "done"
    /\ ex_outcome' = "returned"
    /\ ex_result' = Some(all)

\* the documents the page can show during the call
ExtractDocs == Htmls \cup { FurnitureHtml }

ExtractInit ==
    /\ SessionIdle
    /\ LoaderIdle
    /\ CleanIdle
    /\ ConcIdle
    /\ ex_pc = "static"
    /\ ex_html \in ExtractDocs
    /\ ex_static = 0
    /\ ex_all = <<>>
    /\ ex_selectors = NoSelectors
    /\ ex_failed = {}
    /\ ex_post = None
    /\ ex_outcome = "running"
    /\ ex_result = None

\* traditional_reviews = await self.extract_reviews_traditional(page), on the
\* document the page shows when the script runs, and the first merge
StaticReturns ==
    /\ ex_pc = "static"
    /\ \E h \in ExtractDocs :
          /\ ex_html' = h
          /\ ex_static' = h
          /\ ex_all' = MergeUnseen[<<>>, extract_reviews_traditional(Dom(h).els)]
    /\ ex_pc' = "content"
    /\ UNCHANGED << notExtract, ex_selectors, ex_failed, ex_post, ex_outcome, ex_result >>

\* the static extraction raises: it stands outside the try
StaticRaises ==
    /\ ex_pc = "static"
    /\ ex_pc' = "done"
    /\ ex_outcome' = "raised"
    /\ ex_failed' = ex_failed \cup { "static" }
    /\ UNCHANGED << notExtract, ex_html, ex_static, ex_all, ex_selectors, ex_post, ex_result >>

\* html_content = await page.content()
ContentReturns ==
    /\ ex_pc = "content"
    /\ \E h \in ExtractDocs : ex_html' = h
    /\ ex_pc' = "client_enter"
    /\ UNCHANGED << notExtract, ex_static, ex_all, ex_selectors, ex_failed, ex_post, ex_outcome,
                    ex_result >>

\* the request that was not answered: the await raised
Unanswered == [ kind |-> "unreachable" ]

\* get_dynamic_selectors returns for what query_ollama did: the lists filled
\* from what it returned
SelectorsReturn(post) ==
    /\ ex_selectors' = get_dynamic_selectors(query_ollama(post))
    /\ ex_failed' = IF ServiceFailure(post) = "" THEN ex_failed
                    ELSE ex_failed \cup { ServiceFailure(post) }
    /\ ex_post' = Some(post)
    /\ ex_pc' = "evaluate"

\* selectors = await self.get_dynamic_selectors(html_content), query_ollama:
\* async with httpx.AsyncClient() as client: __aenter__ returns, or it raises
\* and the except clause of query_ollama returns ""
EnterClient ==
    /\ ex_pc = "client_enter"
    /\ \E h \in ExtractDocs : ex_html' = h
    /\ \E ok \in BOOLEAN :
          IF ok THEN ex_pc' = "post" /\ UNCHANGED << ex_selectors, ex_failed, ex_post >>
          ELSE SelectorsReturn(Unanswered)
    /\ UNCHANGED << notExtract, ex_static, ex_all, ex_outcome, ex_result >>

\* query_ollama: response = await client.post(...) returns or raises, the
\* status is tested and response.json()["response"] read
PostReturns ==
    /\ ex_pc = "post"
    /\ \E h \in ExtractDocs : ex_html' = h
    /\ \E post \in Posts : ex_post' = Some(post)
    /\ ex_pc' = "client_exit"
    /\ UNCHANGED << notExtract, ex_static, ex_all, ex_selectors, ex_failed, ex_outcome,
                    ex_result >>

\* query_ollama: the async with statement is left (__aexit__ returns, or it
\* raises and "" is returned), the answer is read and the lists filled up
GetSelectors ==
    /\ ex_pc = "client_exit"
    /\ \E h \in ExtractDocs : ex_html' = h
    /\ \E ok \in BOOLEAN : SelectorsReturn(IF ok THEN ex_post[1] ELSE Unanswered)
    /\ UNCHANGED << notExtract, ex_static, ex_all, ex_outcome, ex_result >>

\* llm_reviews = await page.evaluate(...), on the document the page shows when
\* the script runs, the second merge and the return
EvaluateReturns ==
    /\ ex_pc = "evaluate"
    /\ \E h \in ExtractDocs :
          /\ ex_html' = h
          /\ ex_all' = MergeAssisted(ex_all, AssistedScript[FoundContainers(h, ex_selectors)])
    /\ ExtractReturn(ex_all')
    /\ UNCHANGED << notExtract, ex_static, ex_selectors, ex_failed, ex_post >>

\* page.content() or page.evaluate raises inside the try
AssistedRaises ==
    /\ ex_pc \in { "content", "evaluate" }
    /\ ex_failed' = ex_failed \cup { ex_pc }
    /\ ExtractReturn(ReturnAfterError(ex_all))
    /\ UNCHANGED << notExtract, ex_html, ex_static, ex_all, ex_selectors, ex_post >>

ExtractNext ==
    \/ StaticReturns
    \/ StaticRaises
    \/ ContentReturns
    \/ EnterClient
    \/ PostReturns
    \/ GetSelectors
    \/ EvaluateReturns
    \/ AssistedRaises

ExtractSpec == ExtractInit /\ [][ExtractNext]_vars

\* --------------------------------------------- two sessions at a time
\* Two calls of scrape_reviews on one event loop: a step is one call running
\* from an await to its next one, and the calls take steps in any order. The
\* memory is one store of variables and one set of pages: a call reads and
\* writes the cells its names stand for, those of the module among them, and
\* the page of the context it holds.
\* Every await of either call returns or raises, and finds an element or none.
\* The first call is asked for two reviews on a site of several documents,
\* the second for MaxMaxReviews on a site of one document. The sites keep the
\* document of a page between two navigations.

\* the two calls
Sessions == { 1, 2 }

\* the documents their sites serve: the first call's site the first and the
\* last of 1..NumConcHtml, the second call's site the last
ConcHtmls(i) == IF i = 1 THEN { 1, NumConcHtml } ELSE { NumConcHtml }

\* max_reviews of call i
ConcMax(i) == IF i = 1 THEN 2 ELSE MaxMaxReviews

\* the values document.body.scrollHeight has on the pages of the sites
ConcHeights == { 0, 1 }

\* what query_selector and is_visible tell a call: 1 for an element, or a
\* visible one, 0 for none
Founds == { 0, 1 }

\* the answers of the suggestion service: 1 for an answer that query_ollama
\* returns a string for, 0 for one whose response entry is null
Answers == { 0, 1 }

\* the awaits of handle_pagination for one entry of its selector list
ConcClickPcs ==
    { "wait_selector", "query_selector", "is_visible", "before_content", "scroll_into_view",
      "pre_click_wait", "page_click", "js_click", "load_state", "settle_wait", "after_content" }

\* the awaits of query_ollama
ConcClientPcs == { "client_enter", "post", "client_exit" }

\* the names that scrape_reviews and the functions it calls assign
LocalNames ==
    { "all_reviews", "successful_pages", "page_num", "current_height", "has_selectors",
      "before_url", "before_html", "result" }

\* the name of the module whose object they change: logger = logging.getLogger(__name__)
ModuleNames == { "logger" }

VarNames == LocalNames \cup ModuleNames

\* all_reviews as a name of the module too
ScopeModule(name) == IF name \in ModuleNames \cup { "all_reviews" } THEN "module" ELSE "local"

\* where a name lives: logger is bound at the top of the module; each of the
\* others is assigned inside a function that has no global or nonlocal
\* statement, so it is a local variable of the call
Scope(name) == IF name \in ModuleNames THEN "module" ELSE "local"

\* the cell of the store that name stands for in call i (0: the module)
Cell(i, name) == IF Scope(name) = "local" THEN << i, name >> ELSE << 0, name >>

\* the variables as a call starts them; of the logger the store keeps the
\* calls it has handled a record of, by their url (the first record of a call
\* is that of logger.info(f"Loading page: {url}"))
StartVars ==
    [ all_reviews |-> <<>>, successful_pages |-> 0, page_num |-> 1, current_height |-> 0,
      has_selectors |-> FALSE, before_url |-> <<>>, before_html |-> 0, result |-> None,
      logger |-> {} ]

\* a call before async_playwright().__aenter__ is awaited; step counts the
\* scroll rounds and the selectors of the loops the call is in
StartLocals == [ pc |-> "start", step |-> 0, outcome |-> "running" ]

\* a page that has not navigated
BlankPage == [ url |-> <<"about:blank">>, doc |-> 0 ]

\* what the await kind hands back to a call: it returns (ok) or raises, h is
\* what it reads (a document, a height, an element, a navigation)
Event(kind, h, ok) == [ kind |-> kind, h |-> h, ok |-> ok ]

\* final_result, then the finally clause
Finished(s, u) ==
    [ s EXCEPT !.result = Some(FinalResult(u, s.all_reviews, s.successful_pages)),
               !.pc = "close_context", !.step = 0 ]

\* the except clause, then the finally clause
Failed(s, u) == [ s EXCEPT !.result = Some(ErrorResult(u)), !.pc = "close_context", !.step = 0 ]

\* an exception leaves the body of the async with statement: from outside the
\* try statement, or from the finally clause, where it replaces the result
Leaves(s) == [ s EXCEPT !.result = None, !.pc = "unwind", !.step = 0 ]

\* the while condition, and the call of the loader: current_height = 0
LoopTest(s, max, u) ==
    IF LoopCondition(s.all_reviews, max, s.page_num)
    THEN [ s EXCEPT !.pc = "scroll", !.step = 0, !.current_height = 0 ]
    ELSE Finished(s, u)

\* handle_dynamic_loading returns: combine_extraction_methods is called
LoaderEnds(s) == [ s EXCEPT !.pc = "static", !.step = 0, !.current_height = 0 ]

\* the while loop of a load-more selector is left: the next selector, or the
\* end of the list
NextQuery(s) ==
    IF s.step < NumLoadMore THEN [ s EXCEPT !.pc = "query", !.step = @ + 1 ]
    ELSE LoaderEnds(s)

\* the loader resumes from its await with event e
LoaderStep(s, e) ==
    IF ~e.ok
    THEN IF Handler(s.pc) = "scroll_error" THEN [ s EXCEPT !.pc = "error_wait" ]
         ELSE IF Handler(s.pc) = "selector" THEN NextQuery(s)
         ELSE LoaderEnds(s)
    ELSE CASE s.pc = "scroll" -> [ s EXCEPT !.pc = "scroll_wait" ]
           [] s.pc = "scroll_wait" -> [ s EXCEPT !.pc = "height" ]
           [] s.pc = "height" ->
                 IF e.h = s.current_height THEN [ s EXCEPT !.pc = "same_wait" ]
                 ELSE [ s EXCEPT !.current_height = e.h, !.step = @ + 1,
                                 !.pc = IF s.step + 1 < ScrollRounds THEN "scroll" ELSE "pause" ]
           [] s.pc \in { "same_wait", "error_wait" } -> [ s EXCEPT !.pc = "pause" ]
           [] s.pc = "pause" -> [ s EXCEPT !.pc = "query", !.step = 1 ]
           [] s.pc = "query" -> IF e.h = 1 THEN [ s EXCEPT !.pc = "visible" ] ELSE NextQuery(s)
           [] s.pc = "visible" -> IF e.h = 1 THEN [ s EXCEPT !.pc = "click" ] ELSE NextQuery(s)
           [] s.pc = "click" -> [ s EXCEPT !.doc = e.h, !.pc = "click_wait" ]
           [] s.pc = "click_wait" -> [ s EXCEPT !.pc = "query" ]

\* query_ollama resumes from its await with event e, and get_dynamic_selectors
\* builds its lists: they are empty only when query_ollama returned None
ClientStep(s, e) ==
    CASE s.pc = "client_enter" ->
            IF e.ok THEN [ s EXCEPT !.pc = "post" ]
            ELSE [ s EXCEPT !.has_selectors = TRUE, !.pc = "assisted" ]
      [] s.pc = "post" ->
            [ s EXCEPT !.has_selectors = (~e.ok \/ e.h = 1), !.pc = "client_exit" ]
      [] s.pc = "client_exit" ->
            [ s EXCEPT !.has_selectors = (~e.ok \/ @), !.pc = "assisted" ]

\* one iteration's extraction returns: new_reviews read from the document the
\* call's page shows (site tells what it yields), merged into all_reviews, the
\* two breaks, and the first selector of handle_pagination
ExtractStep(s, llmOk, site, max, u) ==
    LET new_reviews == site[s.doc][llmOk /\ s.has_selectors]
        merged == s.all_reviews \o UniqueReviews(s.all_reviews, new_reviews)
        counted == CountPage(s.successful_pages, Len(s.all_reviews), merged)
        r == [ s EXCEPT !.has_selectors = FALSE ]
        t == [ r EXCEPT !.all_reviews = merged, !.successful_pages = counted ]
    IN  IF new_reviews = <<>> THEN Finished(r, u)
        ELSE IF FoundNew(Len(s.all_reviews), merged) /\ Len(merged) < max
             THEN [ t EXCEPT !.pc = "wait_selector", !.step = 1 ]
             ELSE Finished(t, u)

\* handle_pagination returns: its before_url and before_html are gone
Returned(s) == [ s EXCEPT !.before_url = <<>>, !.before_html = 0, !.step = 0 ]

\* has_next is True: page_num += 1 and the loop condition is tested again
PageTurned(s, max, u) == LoopTest([ Returned(s) EXCEPT !.page_num = @ + 1 ], max, u)

\* continue: the next entry of the selector list; after the last one next_url
\* of page.url, return False for one without a scheme or a host, else the
\* await of page.goto(next_url)
NextEntry(s, u) ==
    IF s.step < NumSelectors
    THEN [ s EXCEPT !.pc = "wait_selector", !.step = @ + 1, !.before_url = <<>>,
                    !.before_html = 0 ]
    ELSE IF ValidUrl(NextUrl(s.url, s.page_num))
         THEN [ Returned(s) EXCEPT !.pc = "rewrite_goto" ]
         ELSE Finished(Returned(s), u)

\* handle_pagination resumes from an await of a selector with event e
ClickStep(s, e, max, u) ==
    IF ~e.ok
    THEN IF s.pc = "page_click" THEN [ s EXCEPT !.pc = "js_click" ]
         ELSE IF s.pc = "load_state" THEN [ s EXCEPT !.pc = "settle_wait" ]
         ELSE NextEntry(s, u)
    ELSE CASE s.pc = "wait_selector" -> [ s EXCEPT !.pc = "query_selector" ]
           [] s.pc = "query_selector" ->
                 IF e.h = 1 THEN [ s EXCEPT !.pc = "is_visible" ] ELSE NextEntry(s, u)
           [] s.pc = "is_visible" ->
                 IF e.h = 1 THEN [ s EXCEPT !.before_url = s.url, !.pc = "before_content" ]
                 ELSE NextEntry(s, u)
           [] s.pc = "before_content" ->
                 [ s EXCEPT !.before_html = s.doc, !.pc = "scroll_into_view" ]
           [] s.pc = "scroll_into_view" -> [ s EXCEPT !.pc = "pre_click_wait" ]
           [] s.pc = "pre_click_wait" -> [ s EXCEPT !.pc = "page_click" ]
           [] s.pc \in { "page_click", "js_click" } ->
                 [ s EXCEPT !.url = e.h[1], !.doc = e.h[2], !.pc = "load_state" ]
           [] s.pc \in { "load_state", "settle_wait" } -> [ s EXCEPT !.pc = "after_content" ]
           [] s.pc = "after_content" ->
                 IF s.before_url # s.url \/ s.before_html # s.doc THEN PageTurned(s, max, u)
                 ELSE NextEntry(s, u)

\* a call with variables and page s resumes from the await e.kind with event
\* e, on a site whose documents yield the batches of site: the code up to the
\* next await
SessionStep(s, e, site, max, u) ==
    CASE e.kind = "start" ->
            IF e.ok THEN [ s EXCEPT !.pc = "launch" ]
            ELSE [ s EXCEPT !.pc = "done", !.outcome = "raised" ]
      [] e.kind = "launch" -> IF e.ok THEN [ s EXCEPT !.pc = "new_context" ] ELSE Leaves(s)
      [] e.kind = "new_context" -> IF e.ok THEN [ s EXCEPT !.pc = "new_page" ] ELSE Leaves(s)
      [] e.kind = "new_page" ->
            IF e.ok THEN [ s EXCEPT !.pc = "goto", !.logger = @ \cup { u } ] ELSE Leaves(s)
      [] e.kind = "goto" ->
            IF e.ok THEN [ s EXCEPT !.url = u, !.doc = e.h, !.pc = "goto_wait" ]
            ELSE Failed(s, u)
      [] e.kind = "goto_wait" ->
            IF e.ok THEN LoopTest([ s EXCEPT !.page_num = 1 ], max, u) ELSE Failed(s, u)
      [] e.kind \in LoaderAwaits -> LoaderStep(s, e)
      [] e.kind = "static" -> IF e.ok THEN [ s EXCEPT !.pc = "content" ] ELSE Failed(s, u)
      [] e.kind = "content" ->
            IF e.ok THEN [ s EXCEPT !.pc = "client_enter" ]
            ELSE ExtractStep(s, FALSE, site, max, u)
      [] e.kind \in ConcClientPcs -> ClientStep(s, e)
      [] e.kind = "assisted" -> ExtractStep(s, e.ok, site, max, u)
      [] e.kind \in ConcClickPcs -> ClickStep(s, e, max, u)
      [] e.kind = "rewrite_goto" ->
            IF e.ok
            THEN [ s EXCEPT !.url = NextUrl(s.url, s.page_num), !.doc = e.h,
                            !.pc = "rewrite_wait" ]
            ELSE Finished(s, u)
      [] e.kind = "rewrite_wait" -> IF e.ok THEN PageTurned(s, max, u) ELSE Finished(s, u)
      [] e.kind = "close_context" ->
            IF e.ok THEN [ s EXCEPT !.pc = "close_browser" ] ELSE Leaves(s)
      [] e.kind = "close_browser" -> IF e.ok THEN [ s EXCEPT !.pc = "exit" ] ELSE Leaves(s)
      [] e.kind = "exit" ->
            IF e.ok THEN [ s EXCEPT !.pc = "done", !.outcome = "returned" ]
            ELSE [ s EXCEPT !.pc = "done", !.outcome = "raised", !.result = None ]
      [] e.kind = "unwind" -> [ s EXCEPT !.pc = "done", !.outcome = "raised" ]

\* a call run alone, before its first await: its variables and its page
StartAlone ==
    [ pc |-> "start", step |-> 0, outcome |-> "running", all_reviews |-> <<>>,
      successful_pages |-> 0, page_num |-> 1, current_height |-> 0, has_selectors |-> FALSE,
      before_url |-> <<>>, before_html |-> 0, result |-> None, logger |-> {},
      url |-> <<"about:blank">>, doc |-> 0 ]

\* browser.new_context() of a call's own browser: a context no call has
NewContextId(created) == created + 1

\* the page of call i: that of the context it holds
PageOf(i) == IF c_context[i] = 0 THEN BlankPage ELSE c_page[c_context[i]]

\* call i as it finds itself when it resumes: the await it is at, the values
\* of the cells its names stand for, and its page
Live(i) ==
    [ pc |-> c_at[i].pc, step |-> c_at[i].step, outcome |-> c_at[i].outcome,
      all_reviews |-> c_local[Cell(i, "all_reviews")],
      successful_pages |-> c_local[Cell(i, "successful_pages")],
      page_num |-> c_local[Cell(i, "page_num")],
      current_height |-> c_local[Cell(i, "current_height")],
      has_selectors |-> c_local[Cell(i, "has_selectors")],
      before_url |-> c_local[Cell(i, "before_url")],
      before_html |-> c_local[Cell(i, "before_html")],
      result |-> c_local[Cell(i, "result")],
      logger |-> c_local[Cell(i, "logger")],
      url |-> PageOf(i).url, doc |-> PageOf(i).doc ]

\* call i resumes from the await e.kind with event e and writes its variables
\* and its page back; the same call run alone resumes with the same event.
\* site is new_reviews of every document, which only the return of the
\* extraction reads
Await(i, e, site) ==
    /\ c_at[i].pc = e.kind
    /\ \E t \in { SessionStep(Live(i), e, site, c_max[i], c_url[i]) } :
          /\ c_at' = [ c_at EXCEPT ![i] = [ pc |-> t.pc, step |-> t.step,
                                             outcome |-> t.outcome ] ]
          /\ c_local' = [ c \in DOMAIN c_local |->
                            IF c = Cell(i, c[2]) THEN t[c[2]] ELSE c_local[c] ]
          /\ c_page' = IF c_context[i] = 0 THEN c_page
                       ELSE [ c_page EXCEPT ![c_context[i]] = [ url |-> t.url, doc |-> t.doc ] ]
    /\ c_alone' = [ c_alone EXCEPT ![i] = SessionStep(@, e, site, c_max[i], c_url[i]) ]

ConcInit ==
    /\ SessionIdle
    /\ LoaderIdle
    /\ CleanIdle
    /\ ExtractIdle
    /\ c_url = [ i \in Sessions |-> <<"http:", "//", "h", "/p", ToDigits(i)[1]>> ]
    /\ c_max = [ i \in Sessions |-> ConcMax(i) ]
    /\ c_at = [ i \in Sessions |-> StartLocals ]
    /\ c_local = [ c \in ({ 0 } \cup Sessions) \X VarNames |-> StartVars[c[2]] ]
    /\ c_context = [ i \in Sessions |-> 0 ]
    /\ c_created = 0
    /\ c_page = [ k \in Sessions |-> BlankPage ]
    /\ c_alone = [ i \in Sessions |-> StartAlone ]

\* what an await of a call leaves alone, unless it creates the context
concFixed == << notConc, c_url, c_max, c_context, c_created >>

\* async with async_playwright() as p: __aenter__ is awaited
ConcStart(i) ==
    /\ \E ok \in BOOLEAN : Await(i, Event("start", 0, ok), <<>>)
    /\ UNCHANGED concFixed

\* browser = await p.chromium.launch(headless=True)
ConcLaunch(i) ==
    /\ \E ok \in BOOLEAN : Await(i, Event("launch", 0, ok), <<>>)
    /\ UNCHANGED concFixed

\* context = await browser.new_context(...): the call holds a context when the
\* await returns
ConcNewContext(i) ==
    /\ \E ok \in BOOLEAN :
          /\ Await(i, Event("new_context", 0, ok), <<>>)
          /\ c_context' = IF ok THEN [ c_context EXCEPT ![i] = NewContextId(c_created) ]
                          ELSE c_context
          /\ c_created' = IF ok THEN c_created + 1 ELSE c_created
    /\ UNCHANGED << notConc, c_url, c_max >>

\* page = await context.new_page()
ConcNewPage(i) ==
    /\ \E ok \in BOOLEAN : Await(i, Event("new_page", 0, ok), <<>>)
    /\ UNCHANGED concFixed

\* await page.goto(url, ...)
ConcGoto(i) ==
    /\ \E h \in ConcHtmls(i), ok \in BOOLEAN : Await(i, Event("goto", h, ok), <<>>)
    /\ UNCHANGED concFixed

\* await page.wait_for_timeout(2000), page_num = 1 and the first test of the
\* loop condition
ConcGotoWait(i) ==
    /\ \E ok \in BOOLEAN : Await(i, Event("goto_wait", 0, ok), <<>>)
    /\ UNCHANGED concFixed

\* loader: await page.evaluate('window.scrollTo(0, document.body.scrollHeight)')
ConcScroll(i) ==
    /\ \E ok \in BOOLEAN : Await(i, Event("scroll", 0, ok), <<>>)
    /\ UNCHANGED concFixed

\* loader: await page.wait_for_timeout(3000)
ConcScrollWait(i) ==
    /\ \E ok \in BOOLEAN : Await(i, Event("scroll_wait", 0, ok), <<>>)
    /\ UNCHANGED concFixed

\* loader: new_height = await page.evaluate('document.body.scrollHeight') and
\* the comparison with current_height
ConcHeight(i) ==
    /\ \E h \in ConcHeights, ok \in BOOLEAN : Await(i, Event("height", h, ok), <<>>)
    /\ UNCHANGED concFixed

\* loader: await page.wait_for_timeout(2000); break
ConcSameWait(i) ==
    /\ \E ok \in BOOLEAN : Await(i, Event("same_wait", 0, ok), <<>>)
    /\ UNCHANGED concFixed

\* loader: except Exception as scroll_error: await page.wait_for_timeout(2000); break
ConcErrorWait(i) ==
    /\ \E ok \in BOOLEAN : Await(i, Event("error_wait", 0, ok), <<>>)
    /\ UNCHANGED concFixed

\* loader: await page.wait_for_timeout(2000) before the buttons
ConcPause(i) ==
    /\ \E ok \in BOOLEAN : Await(i, Event("pause", 0, ok), <<>>)
    /\ UNCHANGED concFixed

\* loader: button = await page.query_selector(selector); the pages have a
\* button for the first load-more selector at most
ConcQuery(i) ==
    /\ \E found \in (IF c_at[i].step = 1 THEN Founds ELSE { 0 }), ok \in BOOLEAN :
          Await(i, Event("query", found, ok), <<>>)
    /\ UNCHANGED concFixed

\* loader: await button.is_visible()
ConcVisible(i) ==
    /\ \E visible \in Founds, ok \in BOOLEAN : Await(i, Event("visible", visible, ok), <<>>)
    /\ UNCHANGED concFixed

\* loader: await button.click(), which may load another document
ConcClick(i) ==
    /\ \E h \in ConcHtmls(i), ok \in BOOLEAN : Await(i, Event("click", h, ok), <<>>)
    /\ UNCHANGED concFixed

\* loader: await page.wait_for_timeout(3000), then the while loop again
ConcClickWait(i) ==
    /\ \E ok \in BOOLEAN : Await(i, Event("click_wait", 0, ok), <<>>)
    /\ UNCHANGED concFixed

\* traditional_reviews = await extract_reviews_traditional(page)
ConcStatic(i) ==
    /\ \E ok \in BOOLEAN : Await(i, Event("static", 0, ok), <<>>)
    /\ UNCHANGED concFixed

\* html_content = await page.content(); when it raises, the except clause of
\* combine_extraction_methods returns the static records, which are merged
ConcContent(i) ==
    /\ \E ok \in BOOLEAN : Await(i, Event("content", 0, ok), PageReviews)
    /\ UNCHANGED concFixed

\* query_ollama: async with httpx.AsyncClient() as client: __aenter__ is awaited
ConcClientEnter(i) ==
    /\ \E ok \in BOOLEAN : Await(i, Event("client_enter", 0, ok), <<>>)
    /\ UNCHANGED concFixed

\* query_ollama: response = await client.post(...)
ConcPost(i) ==
    /\ \E answer \in Answers, ok \in BOOLEAN : Await(i, Event("post", answer, ok), <<>>)
    /\ UNCHANGED concFixed

\* query_ollama: the async with statement is left (__aexit__ is awaited), and
\* get_dynamic_selectors builds the selector lists
ConcClientExit(i) ==
    /\ \E ok \in BOOLEAN : Await(i, Event("client_exit", 0, ok), <<>>)
    /\ UNCHANGED concFixed

\* llm_reviews = await page.evaluate(...), which returns or raises, the return
\* of new_reviews and the merge
ConcAssisted(i) ==
    /\ \E llmOk \in BOOLEAN : Await(i, Event("assisted", 0, llmOk), PageReviews)
    /\ UNCHANGED concFixed

\* pagination: await page.wait_for_selector(selector, timeout=5000), which
\* raises when the selector matches nothing in time; the pages have an
\* element for the first entry of the selector list at most
ConcWaitSelector(i) ==
    /\ \E ok \in (IF c_at[i].step = 1 THEN BOOLEAN ELSE { FALSE }) :
          Await(i, Event("wait_selector", 0, ok), <<>>)
    /\ UNCHANGED concFixed

\* pagination: element = await page.query_selector(selector)
ConcQuerySelector(i) ==
    /\ \E found \in Founds, ok \in BOOLEAN : Await(i, Event("query_selector", found, ok), <<>>)
    /\ UNCHANGED concFixed

\* pagination: if await element.is_visible(): before_url = page.url
ConcIsVisible(i) ==
    /\ \E visible \in Founds, ok \in BOOLEAN :
          Await(i, Event("is_visible", visible, ok), <<>>)
    /\ UNCHANGED concFixed

\* pagination: before_html = await page.content()
ConcBeforeContent(i) ==
    /\ \E ok \in BOOLEAN : Await(i, Event("before_content", 0, ok), <<>>)
    /\ UNCHANGED concFixed

\* pagination: await element.scroll_into_view_if_needed()
ConcScrollIntoView(i) ==
    /\ \E ok \in BOOLEAN : Await(i, Event("scroll_into_view", 0, ok), <<>>)
    /\ UNCHANGED concFixed

\* pagination: await page.wait_for_timeout(1000)
ConcPreClickWait(i) ==
    /\ \E ok \in BOOLEAN : Await(i, Event("pre_click_wait", 0, ok), <<>>)
    /\ UNCHANGED concFixed

\* where a click of call i on a pagination element leads: the link to the
\* second page is followed, or (first call) the document is replaced in place
ConcTargets(i) ==
    (IF i = 1 THEN { PageOf(i).url, NextUrl(c_url[i], 1) } ELSE { NextUrl(c_url[i], 1) })
        \X ConcHtmls(i)

\* pagination: await element.click(timeout=5000)
ConcPageClick(i) ==
    /\ \E n \in ConcTargets(i), ok \in BOOLEAN : Await(i, Event("page_click", n, ok), <<>>)
    /\ UNCHANGED concFixed

\* pagination: except: await page.evaluate('(element) => element.click()', element)
ConcJsClick(i) ==
    /\ \E n \in ConcTargets(i), ok \in BOOLEAN : Await(i, Event("js_click", n, ok), <<>>)
    /\ UNCHANGED concFixed

\* pagination: await page.wait_for_load_state('networkidle', timeout=5000)
ConcLoadState(i) ==
    /\ \E ok \in BOOLEAN : Await(i, Event("load_state", 0, ok), <<>>)
    /\ UNCHANGED concFixed

\* pagination: except: await page.wait_for_timeout(2000)
ConcSettleWait(i) ==
    /\ \E ok \in BOOLEAN : Await(i, Event("settle_wait", 0, ok), <<>>)
    /\ UNCHANGED concFixed

\* pagination: after_html = await page.content() and the comparison
ConcAfterContent(i) ==
    /\ \E ok \in BOOLEAN : Await(i, Event("after_content", 0, ok), <<>>)
    /\ UNCHANGED concFixed

\* pagination: await page.goto(next_url, ...)
ConcRewriteGoto(i) ==
    /\ \E h \in ConcHtmls(i), ok \in BOOLEAN : Await(i, Event("rewrite_goto", h, ok), <<>>)
    /\ UNCHANGED concFixed

\* pagination: await page.wait_for_timeout(2000); return True; page_num += 1
ConcRewriteWait(i) ==
    /\ \E ok \in BOOLEAN : Await(i, Event("rewrite_wait", 0, ok), <<>>)
    /\ UNCHANGED concFixed

\* finally: await context.close()
ConcCloseContext(i) ==
    /\ \E ok \in BOOLEAN : Await(i, Event("close_context", 0, ok), <<>>)
    /\ UNCHANGED concFixed

\* finally: await browser.close()
ConcCloseBrowser(i) ==
    /\ \E ok \in BOOLEAN : Await(i, Event("close_browser", 0, ok), <<>>)
    /\ UNCHANGED concFixed

\* the async with statement is left and the result is returned, or __aexit__
\* raises
ConcExit(i) ==
    /\ \E ok \in BOOLEAN : Await(i, Event("exit", 0, ok), <<>>)
    /\ UNCHANGED concFixed

\* __aexit__ is awaited with the exception that left the body: the call raises
ConcUnwind(i) ==
    /\ \E ok \in BOOLEAN : Await(i, Event("unwind", 0, ok), <<>>)
    /\ UNCHANGED concFixed

ConcNext ==
    \E i \in Sessions :
        \/ ConcStart(i)
        \/ ConcLaunch(i)
        \/ ConcNewContext(i)
        \/ ConcNewPage(i)
        \/ ConcGoto(i)
        \/ ConcGotoWait(i)
        \/ ConcScroll(i)
        \/ ConcScrollWait(i)
        \/ ConcHeight(i)
        \/ ConcSameWait(i)
        \/ ConcErrorWait(i)
        \/ ConcPause(i)
        \/ ConcQuery(i)
        \/ ConcVisible(i)
        \/ ConcClick(i)
        \/ ConcClickWait(i)
        \/ ConcStatic(i)
        \/ ConcContent(i)
        \/ ConcClientEnter(i)
        \/ ConcPost(i)
        \/ ConcClientExit(i)
        \/ ConcAssisted(i)
        \/ ConcWaitSelector(i)
        \/ ConcQuerySelector(i)
        \/ ConcIsVisible(i)
        \/ ConcBeforeContent(i)
        \/ ConcScrollIntoView(i)
        \/ ConcPreClickWait(i)
        \/ ConcPageClick(i)
        \/ ConcJsClick(i)
        \/ ConcLoadState(i)
        \/ ConcSettleWait(i)
        \/ ConcAfterContent(i)
        \/ ConcRewriteGoto(i)
        \/ ConcRewriteWait(i)
        \/ ConcCloseContext(i)
        \/ ConcCloseBrowser(i)
        \/ ConcExit(i)
        \/ ConcUnwind(i)

ConcSpec == ConcInit /\ [][ConcNext]_vars

\* ------------------------------------------------- cleanText, applied
\* The static normalizer applied to a text, and then to what it returned.

\* the words of the texts
Vocabulary == { <<"w">>, <<"more">>, <<"see">> }

\* the word sequences of up to n words
RECURSIVE WordSeqs(_)
WordSeqs(n) ==
    IF n = 0 THEN { <<>> }
    ELSE WordSeqs(n - 1)
            \cup { Append(ws, w) : ws \in { x \in WordSeqs(n - 1) : Len(x) = n - 1 },
                                   w \in Vocabulary }

\* the words of ws, sep between them
RECURSIVE JoinWith(_, _)
JoinWith(ws, sep) ==
    IF ws = <<>> THEN <<>>
    ELSE IF Len(ws) = 1 THEN ws[1]
    ELSE ws[1] \o sep \o JoinWith(Tail(ws), sep)

\* the texts: words separated by one space or by a space and a line break,
\* as they are or with white space in front
CleanInputs ==
    { lead \o JoinWith(ws, sep) :
         ws \in WordSeqs(MaxWords), sep \in { <<" ">>, <<" ", "\n">> },
         lead \in { <<>>, <<"\n", " ">> } }

CleanInit ==
    /\ SessionIdle
    /\ LoaderIdle
    /\ ExtractIdle
    /\ ConcIdle
    /\ ct_text \in CleanInputs
    /\ ct_first = None
    /\ ct_runs = 0

\* cleanText(text), and cleanText of the value it returned
ApplyCleanText ==
    /\ ct_runs < 2
    /\ ct_text' = cleanText[Some(ct_text)]
    /\ ct_first' = IF ct_runs = 0 THEN Some(cleanText[Some(ct_text)]) ELSE ct_first
    /\ ct_runs' = ct_runs + 1
    /\ UNCHANGED notClean

CleanNext == ApplyCleanText

CleanSpec == CleanInit /\ [][CleanNext]_vars

\* ----------------------------------------------------------- properties

\* the positions after the loop: the finally clause, the exit of the async
\* with statement and the return
EndPcs == {"close_context", "close_browser", "exit", "unwind", "done"}

\* the awaits of handle_dynamic_loading, as called
LoaderPcs == {"loader", "loading"}

\* the awaits of combine_extraction_methods, as called
ExtractPcs == {"extract", "content", "client_enter", "post", "client_exit", "assisted"}

\* the awaits of handle_pagination
PaginationPcs == ClickPcs \cup RewritePcs

\* the positions inside the while loop of scrape_reviews
LoopPcs == LoaderPcs \cup ExtractPcs \cup PaginationPcs

\* the steps the claims on the except clause are about: the awaits between
\* try and except that can raise into scrape_reviews
TrySteps == {"goto", "goto_wait", "extract"}

\* the records a state holds: the collected ones and those of the result
Records == { all_reviews[i] : i \in 1..Len(all_reviews) }
               \cup (IF result = None THEN {}
                     ELSE { result[1].reviews[i] : i \in 1..Len(result[1].reviews) })

\* C1: no two collected records have the same body: the number of collected
\* records equals the number of distinct collected bodies, in all_reviews and
\* in the returned result.
C1_NoDuplicateBodies ==
    /\ \A i, j \in 1..Len(all_reviews) :
          i # j => all_reviews[i].body # all_reviews[j].body
    /\ Cardinality(Bodies(all_reviews)) = Len(all_reviews)
    /\ result # None => Cardinality(Bodies(result[1].reviews)) = Len(result[1].reviews)

\* C1 witness: the second page repeats two bodies of the first page (one of
\* them found by both strategies) under other titles, and adds a third record
C1_Witness ==
    /\ extractions = 2
    /\ Len(all_reviews) = 3
    /\ all_reviews[1].title = <<"u">>
    /\ all_reviews[3].body = <<"g", " ", "h", " ">>
    /\ lastNew = { <<"g", " ", "h", " ">> }

\* C2: an iteration that adds no new unique record (no candidate, or only
\* bodies seen before) ends the session without a handle_pagination call; when
\* this is the second page, the result has pages_with_unique_reviews = 1 (the
\* result is the value to return until the clean-up raises).
C2_StagnationEndsSession ==
    (extractions >= 1 /\ lastNew = {}) =>
        /\ pc \in EndPcs
        /\ pagCalls = extractions - 1
        /\ raisedAt = <<>> =>
              /\ result # None
              /\ extractions = 2 => result[1].pages_with_unique_reviews = 1

\* C2 witness: the second page yields candidates, all with bodies of the first page
C2_Witness ==
    /\ pc = "done"
    /\ outcome = "returned"
    /\ extractions = 2
    /\ pageHtml = 2
    /\ lastNew = {}
    /\ result[1].pages_with_unique_reviews = 1
    /\ result[1].reviews_count >= 2

\* C3: neither all_reviews nor the returned reviews ever hold more than
\* max_reviews records.
C3_CapNeverExceeded ==
    /\ Len(all_reviews) <= max_reviews
    /\ result # None => Len(result[1].reviews) <= max_reviews

\* the result with no reviews
ZeroResult ==
    Some([ reviews |-> <<>>, reviews_count |-> 0, pages_with_unique_reviews |-> 0,
           url |-> url, scrape_date |-> "strftime" ])

\* an exception of a step between try and except is caught: the value to
\* return is the result with no reviews and the finally clause is next
CaughtStep ==
    (raisedAt' # raisedAt /\ pc \in TrySteps) =>
        /\ result' = ZeroResult
        /\ outcome' = "running"
        /\ pc' = "close_context"

\* C4: once the page exists, an exception that reaches scrape_reviews from a
\* step of the session (the initial navigation and its wait, the extraction;
\* the loader and the pagination raise nothing) does not leave it: the except
\* clause takes it, and the call returns the result with no reviews, count 0,
\* page count 0, the url and a date.
C4_ErrorsYieldEmptyResult ==
    /\ []((pc = "done" /\ raisedAt # <<>>
              /\ \A i \in 1..Len(raisedAt) : raisedAt[i] \in TrySteps) =>
              outcome = "returned" /\ result = ZeroResult)
    /\ [][CaughtStep]_vars

\* C4 witness: the extraction of a later page raises after records were collected
C4_Witness ==
    /\ pc = "done"
    /\ raisedAt = <<"extract">>
    /\ Len(all_reviews) >= 2
    /\ page_num = 2
    /\ outcome = "returned"

\* C5: on every exit path after the context was acquired, the context and the
\* browser have been closed when scrape_reviews returns or raises.
C5_ContextAlwaysClosed ==
    (pc = "done" /\ (raisedAt = <<>> \/ raisedAt[1] \notin {"launch", "new_context"})) =>
        ~contextOpen /\ ~browserOpen

\* C6: successful_pages goes up by exactly 1 in a step that adds a body not
\* collected before and is unchanged in every other step; it is at most the
\* number of pages extracted and at most the number of collected records, and
\* in a result it is 0 exactly when reviews_count is 0.
C6_SuccessfulPagesCount ==
    /\ [](/\ successful_pages <= extractions
          /\ successful_pages <= Len(all_reviews)
          /\ result # None =>
                (result[1].pages_with_unique_reviews = 0 <=> result[1].reviews_count = 0))
    /\ [][ /\ successful_pages' =
                 successful_pages
                    + (IF Bodies(all_reviews') \subseteq Bodies(all_reviews) THEN 0 ELSE 1)
           /\ result' # None /\ result = None /\ raisedAt' = raisedAt =>
                 result'[1].pages_with_unique_reviews = successful_pages' ]_vars

\* C6 witness: three pages extracted, two of them with new bodies
C6_Witness ==
    /\ pc = "done"
    /\ extractions = 3
    /\ successful_pages = 2
    /\ result # None
    /\ result[1].pages_with_unique_reviews = 2

\* C7: handle_pagination returns True only when the URL or the HTML after the
\* attempt differs from the one before it, by a click or by the URL rewrite.
C7_NavigatedOnlyOnNewContent ==
    /\ [][ (pc = "after_content" /\ lastPag' = "click") =>
               << pageUrl', pageHtml' >> # << before_url, before_html >> ]_vars
    /\ [][ (pc = "rewrite_goto" /\ pc' = "rewrite_wait") =>
               << pageUrl', pageHtml' >> # << pageUrl, pageHtml >> ]_vars

\* ds is the decimal numeral of n
IsNumeral(ds, n) ==
    /\ ds # <<>>
    /\ \A i \in 1..Len(ds) : IsDigit(ds[i])
    /\ Len(ds) > 1 => ds[1] # "0"
    /\ IntVal[ds] = n

\* the i-th atom of URL u opens the parameter named page: "page=" at the
\* start of a parameter of the query string
IsPageParameter(u, i) == i > 1 /\ u[i] = "page=" /\ u[i - 1] \in { "?", "&" }

\* after is before with the value of the page parameter that starts at i (the
\* digits that follow it, if any) replaced by the numeral of n, and nothing
\* else changed
ReplacesValue(before, i, n, after) ==
    LET rest == SubSeq(before, i + 1 + DigitPrefix[SubSeq(before, i + 1, Len(before))],
                       Len(before))
    IN  /\ Len(after) > i + Len(rest)
        /\ SubSeq(after, 1, i) = SubSeq(before, 1, i)
        /\ SubSeq(after, Len(after) - Len(rest) + 1, Len(after)) = rest
        /\ IsNumeral(SubSeq(after, i + 1, Len(after) - Len(rest)), n)

\* after is before with the value of its page parameter replaced by n, or,
\* when before does not contain page=, before followed by ?page=n (&page=n
\* after a "?")
IsRewriteOf(before, n, after) ==
    IF \E i \in 1..Len(before) : before[i] = "page="
    THEN \E i \in 1..Len(before) :
            IsPageParameter(before, i) /\ ReplacesValue(before, i, n, after)
    ELSE /\ Len(after) >= Len(before) + 3
         /\ SubSeq(after, 1, Len(before)) = before
         /\ after[Len(before) + 1] = (IF \E i \in 1..Len(before) : before[i] = "?"
                                      THEN "&" ELSE "?")
         /\ after[Len(before) + 2] = "page="
         /\ IsNumeral(SubSeq(after, Len(before) + 3, Len(after)), n)

\* C8: when no click selector produced a change, the URL rewrite navigates to
\* the current URL with the value of its page= parameter replaced by
\* current_page + 1, or, without page=, to the current URL followed by
\* ?page=<current_page+1> (&page= after a query string); when the navigation
\* succeeds handle_pagination returns True.
C8_UrlRewriteTarget ==
    /\ [](pc \in RewritePcs => selIdx = NumSelectors)
    /\ [][ (pc = "rewrite_goto" /\ pc' = "rewrite_wait") =>
               IsRewriteOf(pageUrl, page_num + 1, pageUrl') ]_vars
    /\ [][ (pc = "rewrite_wait" /\ pc' # pc /\ lastPag' # "failed") =>
               /\ pageUrl' = pageUrl
               /\ lastPag' = "rewrite"
               /\ page_num' = page_num + 1 ]_vars

\* C9: every collected or returned record has a rating that is absent or a
\* number within [0, 5].
C9_RatingsInRange ==
    \A r \in Records : r.rating = None \/ InRange[r.rating]

\* C10: every collected record has a non-empty body of at least 3
\* whitespace-delimited words.
C10_BodiesHaveThreeWords ==
    \A r \in Records : r.body # <<>> /\ Len(PySplit[r.body]) >= MinWords

\* C11: handle_dynamic_loading terminates whenever each browser call returns
\* (at most three scroll rounds, a bounded number of clicks per selector, also
\* when the button stays present and visible after every click).
C11_LoaderTerminates == <>(ld_outcome # "running")

\* C12: no exception leaves handle_dynamic_loading: whatever await raises, the
\* loader does not raise, and an exception outside the two inner try
\* statements (the wait of the scroll error handler, the wait before the
\* buttons) makes it return at once.
C12_LoaderNeverRaises ==
    /\ ld_outcome \in {"running", "returned"}
    /\ ld_raised \cap {"error_wait", "pause"} # {} => ld_outcome = "returned"
    /\ ld_pc = "done" => ld_outcome = "returned"

\* an exception in a scroll round, then one in the handler's own wait, and the
\* loader has returned
C12_Witness ==
    /\ ld_outcome = "returned"
    /\ "error_wait" \in ld_raised
    /\ ld_raised \cap {"scroll", "scroll_wait", "height", "same_wait"} # {}

\* one step inside the loop: the iteration goes on, the next one begins on the
\* next page number, or the session ends
LoopStep ==
    pc \in LoopPcs =>
        \/ pc' \in LoopPcs \ {"loader"} /\ page_num' = page_num
        \/ pc' = "loader" /\ page_num' = page_num + 1
        \/ pc' \in EndPcs /\ result' # None /\ page_num' \in {page_num, page_num + 1}

\* C13: when every step returns, scrape_reviews ends after at most 50 loop
\* iterations: a page is loaded and extracted only while page_num <= 50 and
\* fewer than max_reviews records are collected, and an iteration either ends
\* the session or increases page_num by exactly 1.
C13_LoopBounded ==
    /\ [](/\ pc \in LoopPcs => page_num <= MaxPageNum
          /\ pc \in LoaderPcs \cup ExtractPcs => Len(all_reviews) < max_reviews
          /\ extractions <= MaxPageNum
          /\ page_num <= MaxPageNum + 1)
    /\ [][LoopStep]_vars

\* fifty pages were loaded and extracted, and the loop ended on page_num = 51
C13_Witness ==
    /\ result # None
    /\ extractions = MaxPageNum
    /\ page_num = MaxPageNum + 1
    /\ Len(all_reviews) = MaxPageNum
    /\ Len(all_reviews) < max_reviews

\* the batches combine_extraction_methods can return on the current page: the
\* static records of a document it serves, and after them the assisted records
\* of a document it serves, or none
Batches ==
    { MergeAssisted(StaticReviews[h], assisted) :
        h \in Served(url, page_num),
        assisted \in { <<>> } \cup { AssistedReviews[g] : g \in Served(url, page_num) } }

\* C14: dedup idempotence: extracting and merging an unchanged page a second
\* time adds no record: while the extraction of a page runs, merging a batch
\* into all_reviews twice gives what merging it once gives, for every batch the
\* page can yield, and a session step that merges a batch whose bodies were all
\* seen before leaves all_reviews as it is.
C14_DedupIdempotent ==
    /\ [](pc \in ExtractPcs =>
             \A new_reviews \in Batches :
                LET once == Merged(all_reviews, new_reviews)
                IN  /\ Merged(once, new_reviews) = once
                    /\ Len(Merged(once, new_reviews)) = Len(once))
    /\ [][extractions' = extractions + 1 /\ lastNew' = {} =>
             all_reviews' = all_reviews]_vars

\* the first document of the small site was extracted on two pages in a row:
\* the second extraction found its records again and added none
C14_Witness ==
    /\ extractions = 2
    /\ pageHtml = 1
    /\ all_reviews = StaticReviews[1]
    /\ Len(all_reviews) = 2
    /\ lastNew = {}
    /\ seen = Bodies(all_reviews)
    /\ result # None

\* C15: the static cleanText is idempotent: applied to the text it returned,
\* it returns that text again.
C15_CleanTextIdempotent == ct_runs = 2 => ct_text = ct_first[1]

\* every way the assisted strategy fails
AssistedFailures ==
    { "unreachable", "status", "badjson", "malformed", "empty", "content", "evaluate" }

\* the deduplicated candidates of the static strategy on document h (the
\* page shows ex_static as the static script runs)
StaticCandidates(h) == MergeUnseen[<<>>, extract_reviews_traditional(Dom(h).els)]

\* C16: whichever way the assisted strategy fails (service unreachable, a
\* status other than 200, a malformed or empty answer, the assisted DOM pass
\* raising), combine_extraction_methods raises nothing and what it returns
\* begins with every deduplicated candidate of the static strategy.
C16_AssistedFailureKeepsStatic ==
    /\ ex_failed \cap AssistedFailures # {} => ex_outcome # "raised"
    /\ ex_outcome = "returned" =>
          /\ ex_result # None
          /\ Len(ex_result[1]) >= Len(StaticCandidates(ex_static))
          /\ SubSeq(ex_result[1], 1, Len(StaticCandidates(ex_static))) = StaticCandidates(ex_static)

\* the service was unreachable, the assisted pass ran on the fallback
\* selectors and raised, and the two static candidates were returned
C16_Witness ==
    /\ ex_outcome = "returned"
    /\ ex_failed = { "unreachable", "evaluate" }
    /\ Len(ex_selectors.containers) = Len(FallbackContainers)
    /\ Len(StaticCandidates(ex_static)) = 2
    /\ ex_result = Some(StaticCandidates(ex_static))

\* the except clause of scrape_reviews produces its zero-review result
ZeroResultStep ==
    raisedAt' # raisedAt /\ result' # None =>
        /\ pc \in {"goto", "goto_wait", "extract"}
        /\ browserOpen /\ contextOpen
        /\ result' = Some(ErrorResult(url))

\* browser = await p.chromium.launch(headless=True) raised
LaunchFailed == \E i \in 1..Len(raisedAt) : raisedAt[i] = "launch"

\* no result of scrape_reviews, and status 500 once get_reviews answers
LaunchFailureVisible ==
    /\ result = None
    /\ pc = "done" => outcome = "raised"
    /\ response # None => response[1].status = 500

\* C17: a failure of the browser launch yields no result of scrape_reviews:
\* the exception leaves it and get_reviews answers with status 500; the except
\* clause produces its zero-review result only for a failure of a step taken
\* with browser, context and page acquired.
C17_LaunchFailureFatal ==
    /\ [](LaunchFailed => LaunchFailureVisible)
    /\ [][ZeroResultStep]_vars

\* the launch failed and the endpoint answered 500
C17_Witness ==
    /\ raisedAt = <<"launch">>
    /\ outcome = "raised"
    /\ result = None
    /\ response = Some(HttpResponse(500, None))

\* C18: two sessions interleaved at their awaits share neither variables nor
\* browser context: at every moment the await each is at, its collected
\* records, page counter, page number, result and every other variable, and
\* the URL and the document of its page are those it has when run alone
\* against the events its own awaits handed back. The one object both write,
\* the logger, holds the records of both and is read by neither; no call
\* writes a local name of another or of the module, and no two calls hold the
\* same context.
C18_SessionsIndependent ==
    c_at # <<>> =>
        /\ \A i \in Sessions : [ Live(i) EXCEPT !.logger = c_alone[i].logger ] = c_alone[i]
        /\ \A i \in Sessions : Live(i).logger = UNION { c_alone[j].logger : j \in Sessions }
        /\ \A name \in LocalNames : c_local[<< 0, name >>] = StartVars[name]
        /\ \A i, j \in Sessions : (i # j /\ c_context[i] # 0) => c_context[i] # c_context[j]

\* the first call created its context after the second and has returned its
\* records from its second page, while the second, led to its second page by
\* a click, is comparing the page with what it was before another click: the
\* first ran from its start to its end between two awaits of the second
C18_Witness ==
    /\ c_at # <<>>
    /\ c_context[1] = 2
    /\ c_at[1].pc = "done" /\ c_at[1].outcome = "returned"
    /\ Live(1).result[1].reviews_count > 0
    /\ Live(1).page_num = 2
    /\ c_at[2].pc = "after_content"
    /\ Live(2).page_num = 2
    /\ Live(2).url = NextUrl(c_url[2], 1)
    /\ Live(2).all_reviews # <<>>
    /\ Live(2).all_reviews # Live(1).result[1].reviews
    /\ Live(2).logger = { c_url[1], c_url[2] }

\* C19: no record that combine_extraction_methods returns, of the static or
\* of the assisted strategy, has a body that the invalid patterns of
\* isValidReview match.
C19_FilterSoleGate ==
    ex_result # None =>
        \A k \in 1..Len(ex_result[1]) : ~MatchesInvalid[Trim[ex_result[1][k].body]]

\* C20: when a handle_pagination call starts on a selector or is in its URL
\* modification, no selector of that call was left with the URL or the HTML
\* changed by its click (the first changing click returns True, so no later
\* selector is clicked and no URL is rewritten), and the URL modification
\* starts only after the last selector of the list.
C20_RewriteAfterClicks ==
    /\ pc \in {"wait_selector"} \cup RewritePcs => pagChanged # pagCalls
    /\ pc \in RewritePcs => selIdx = NumSelectors

\* a step of handle_pagination raises nothing into scrape_reviews
PaginationStepCaught ==
    pc \in PaginationPcs => outcome' = "running" /\ raisedAt' = raisedAt

\* False is returned by the URL modification only, after the last selector:
\* for an invalid next_url as the last selector is left, else when an await
\* of the modification raises
ReturnsFalseStep ==
    (lastPag' \in {"invalid", "failed"} /\ lastPag' # lastPag) =>
        /\ selIdx = NumSelectors
        /\ IF lastPag' = "invalid" THEN pc \in ClickPcs ELSE pc \in RewritePcs

\* C21: handle_pagination propagates no exception (an exception at a click
\* selector leads to the next selector, an exception or an invalid URL in the
\* URL modification to False), and False is returned only after every click
\* selector was tried without a change of the page and the URL modification
\* did not succeed.
C21_PaginationNeverRaises ==
    /\ [](lastPag \in {"invalid", "failed"} => pagChanged # pagCalls)
    /\ [][PaginationStepCaught]_vars
    /\ [][ReturnsFalseStep]_vars

\* handle_pagination is called: the iteration added a record and the
\* collected records are fewer than max_reviews
PaginationCalledStep ==
    pagCalls' # pagCalls =>
        /\ pc \in {"content", "assisted"}
        /\ Len(all_reviews') > Len(all_reviews)
        /\ Len(all_reviews') < max_reviews

\* handle_pagination returns False: the session ends on the page it is on
NotFoundStep ==
    (lastPag' \in {"invalid", "failed"} /\ lastPag' # lastPag) =>
        pc' \in EndPcs /\ result' # None /\ page_num' = page_num

\* page_num changes: by one, as handle_pagination returns True
PageNumStep ==
    page_num' # page_num =>
        /\ pc \in {"after_content", "rewrite_wait"}
        /\ page_num' = page_num + 1
        /\ lastPag' \in {"click", "rewrite"}

\* C22: handle_pagination is called only in an iteration that added a new
\* record and left fewer than max_reviews records; with max_reviews records or
\* more collected the session is at no loader, extraction or pagination step;
\* a False of handle_pagination ends the session, and page_num grows only, by
\* one, when it returns True.
C22_PaginationGuarded ==
    /\ [](Len(all_reviews) >= max_reviews /\ pc # "idle" =>
             pc \notin LoopPcs)
    /\ [][PaginationCalledStep]_vars
    /\ [][NotFoundStep]_vars
    /\ [][PageNumStep]_vars

\* one navigation, then a second call that returned False and ended the
\* session on page 2 with fewer than max_reviews records
C22_Witness ==
    /\ pc = "done"
    /\ pagCalls = 2
    /\ page_num = 2
    /\ lastPag = "failed"
    /\ Len(all_reviews) = 2
    /\ max_reviews = 3
    /\ result = Some(FinalResult(url, all_reviews, successful_pages))

\* the records of the assisted script on the document the page shows as it
\* runs, with the selectors in use
AssistedCandidates == AssistedScript[FoundContainers(ex_html, ex_selectors)]

\* C23: in the batch combine_extraction_methods returns, the static records
\* come first, every record after them is an assisted record whose body no
\* static record has, and the batch holds each body once: where both
\* strategies produce a body, the record kept is the static one.
C23_StaticFirst ==
    ex_outcome = "returned" =>
        LET static == StaticCandidates(ex_static)
            batch == ex_result[1]
        IN  /\ Len(batch) >= Len(static)
            /\ \A k \in 1..Len(batch) :
                  IF k <= Len(static) THEN batch[k] = static[k]
                  ELSE /\ \E a \in 1..Len(AssistedCandidates) : AssistedCandidates[a] = batch[k]
                       /\ batch[k].body \notin Bodies(static)
            /\ \A k, m \in 1..Len(batch) : batch[k].body = batch[m].body => k = m

\* the assisted pass ran and produced the body of a static record under
\* another title and rating, and a body of its own: the static record was kept
C23_Witness ==
    /\ ex_outcome = "returned"
    /\ "evaluate" \notin ex_failed
    /\ ex_result # None
    /\ Len(ex_result[1]) = Len(StaticCandidates(ex_static)) + 1
    /\ \E a \in 1..Len(AssistedCandidates) :
          /\ AssistedCandidates[a].body = ex_result[1][1].body
          /\ AssistedCandidates[a] # ex_result[1][1]
          /\ ex_result[1][1] = StaticCandidates(ex_static)[1]

\* what get_dynamic_selectors parsed out of the answer to the request
\* (nothing when the answer holds no text)
ParsedSelectors ==
    IF query_ollama(ex_post[1]).kind = "str"
    THEN ParseLines[query_ollama(ex_post[1]).lines, "none", NoSelectors]
    ELSE NoSelectors

\* a list returned for the parsed entries: they alone when they are 2 or more,
\* else they and the fallback selectors after them, and 2 entries at least
FilledFrom(list, parsed, fallback) ==
    /\ Len(list) >= 2
    /\ list = IF Len(parsed) >= 2 THEN parsed ELSE parsed \o fallback

\* C24: whatever the service answers, each of the three lists
\* get_dynamic_selectors returns has 2 entries or more: the parsed entries when
\* they are 2 or more, else the parsed entries followed by the fallback
\* selectors of the category.
C24_SelectorListsFilled ==
    (ex_post # None /\ ex_pc # "client_exit") =>
        /\ FilledFrom(ex_selectors.containers, ParsedSelectors.containers, FallbackContainers)
        /\ FilledFrom(ex_selectors.content, ParsedSelectors.content, FallbackContent)
        /\ FilledFrom(ex_selectors.ratings, ParsedSelectors.ratings, FallbackRatings)

\* s is a prefix of t
IsPrefix(s, t) == Len(s) <= Len(t) /\ SubSeq(t, 1, Len(s)) = s

\* C25: all_reviews is append-only: over every step of the session the
\* sequence before the step is a prefix of the sequence after it, so no record
\* is removed, moved or changed, and a later record with the body of a
\* collected one does not take its place.
C25_AppendOnly == [][IsPrefix(all_reviews, all_reviews')]_vars

\* the second page showed the first collected body under another title and
\* rating, and the record of the first page is still the one collected
C25_Witness ==
    /\ extractions = 2
    /\ pageHtml = 2
    /\ all_reviews = StaticReviews[1]
    /\ Len(all_reviews) = 2
    /\ StaticReviews[2][1].body = all_reviews[1].body
    /\ StaticReviews[2][1] # all_reviews[1]
    /\ result = Some(FinalResult(url, all_reviews, 1))

====
